---- MODULE Spec2Model ----
(***************************************************************************)
(* The run correlator of scripts/profile_relay_runs.py: build_run_records  *)
(* consumes the relay events in arrival order and keeps, per conversation, *)
(* the active run, the pending queue markers and the runs seen so far.     *)
(* classify_progress_note, normalize_note_for_repeat, summarize_run and    *)
(* main derive the report from the runs.  Times are in seconds; durations  *)
(* the summarizer computes are kept in milliseconds so that durationMs     *)
(* divides exactly.                                                        *)
(***************************************************************************)
EXTENDS Integers, Sequences, FiniteSets, TLC

\* ---------------------------------------------------------------- bounds
\* Number of notes of a run handed to summarize_run under SpecSummary.
MaxNotes == 3
\* Length of the streams of starts and terminal events under SpecMain.
MaxStreamLen == 5
\* Number of invocations of append_registry under SpecRegistry.
MaxInvocations == 3
\* Number of events the pass consumes under Spec (every kind of event).
MaxEvents == 3
\* Number of events the pass consumes under SpecQueue (queued and start events).
MaxQueueEvents == 4
\* Number of events the pass consumes under SpecRoute (starts, notes, stale
\* alerts and terminal events, in order of time).
MaxRouteEvents == 5

\* ------------------------------------------------------------- constants
\* The 6 hours of line 187, in seconds.
StaleHorizon == 6 * 3600
\* Python's None for an optional integer or timestamp.
Absent == -1
\* A field value int() rejects (such as "abc").
Malformed == -2

\* ---------------------------------------------------------------- inputs
\* Strings are taken as already stripped; "" stands for a missing, empty or
\* blank field.
Convs == {"c1", "c2"}
ConvInputs == Convs \cup {""}
RunIds == {"r1"}
RunIdInputs == RunIds \cup {""}
\* Timestamps in seconds: under Spec 12 hours apart, under SpecQueue also
\* exactly the staleness horizon apart.
Times == {0, 2 * StaleHorizon}
QueueTimes == {0, StaleHorizon, 2 * StaleHorizon}
SinceInputs == {Absent, 2 * StaleHorizon}
ConvFilterInputs == {"", "c1"}

\* A datetime object: its value in seconds and the arrival position of the
\* event whose "_at" it is (the object's identity).
NoTime == [at |-> Absent, src |-> 0]

\* ---------------------------------------------------------------- events
BaseEvent(kind, c, r, t) ==
    [event |-> kind, conversationKey |-> c, runId |-> r, at |-> t,
     note |-> "", synthetic |-> FALSE,
     durationMs |-> Absent, resultChars |-> Absent, transientRetries |-> Absent,
     reason |-> "", provider |-> ""]

NoEvent == BaseEvent("", "", "", 0)

EventsOf(kind) ==
    {BaseEvent(kind, c, r, t) : c \in ConvInputs, r \in RunIdInputs, t \in Times}

QueuedEvents == EventsOf("message.queued")
StartEvents == EventsOf("agent.run.start")
StaleEvents == EventsOf("job.watch.stale_progress")
OtherEvents == {BaseEvent("relay.other", c, "", 0) : c \in ConvInputs}

\* The note of a progress event: missing, or a text with the synthetic flag.
NotePayloads == {<<"", FALSE>>, <<"Thinking: plan", FALSE>>, <<"Still working", TRUE>>}

NoteEvents ==
    {[e EXCEPT !.note = p[1], !.synthetic = p[2]] :
        e \in EventsOf("agent.progress.note"), p \in NotePayloads}

\* The optional fields of a terminal event, <<durationMs, resultChars,
\* transientRetries>>: absent, present (0 included) or malformed.
TerminalPayloads ==
    {<<Absent, Absent, Absent>>, <<0, Absent, 2>>, <<55000, 120, 1>>,
     <<Malformed, Absent, Absent>>, <<Absent, Malformed, Absent>>,
     <<Absent, Absent, Malformed>>}

TerminalKinds == {"agent.run.done", "message.failed"}

TerminalEvents ==
    {[e EXCEPT !.durationMs = p[1], !.resultChars = p[2], !.transientRetries = p[3]] :
        e \in EventsOf("agent.run.done") \cup EventsOf("message.failed"),
        p \in TerminalPayloads}

\* Events for the filters to reject: payloads play no part there.
SkipEvents ==
    QueuedEvents \cup StartEvents \cup StaleEvents \cup OtherEvents
        \cup EventsOf("agent.progress.note")
        \cup EventsOf("agent.run.done") \cup EventsOf("message.failed")

\* The events of SpecQueue: queue markers and run starts of two conversations.
QueueSpecEvents(kind) ==
    {BaseEvent(kind, c, r, t) : c \in Convs, r \in RunIdInputs, t \in QueueTimes}

VARIABLES
    runs,               \* List[RunRecord], in creation order
    active_by_conv,     \* conversation -> index into runs, 0 when absent
    by_run_id,          \* run id -> index into runs
    queued_by_conv,     \* conversation -> deque of pending timestamps
    queued_by_run_id,   \* run id -> pending timestamp
    legacy_counter,
    evt,                \* the event of the current loop iteration
    n,                  \* number of events consumed so far
    raised,             \* an exception left build_run_records
    since,              \* parameter: cutoff or Absent
    conversation_key,   \* parameter: filter or ""
    queued_log,         \* history: the accepted message.queued events
    start_view,         \* history: per run, what its start event found pending
    events,             \* main: the stream parse_relay_events yields
    include_open,       \* main: --include-open
    limit_runs,         \* main: --limit-runs
    summaries,          \* main: the summaries of the report, or NoReport
    run,                \* summarize_run: its argument
    summary,            \* summarize_run: its result, or NoSummary
    duration_out,       \* run.duration_seconds(): <<result>>, <<>> before the call
    queue_delay_out,    \* run.queue_delay_seconds(): <<result>>, <<>> before the call
    note,               \* classify_progress_note: its arguments
    synthetic,
    category,           \* classify_progress_note: its result, or ""
    gate_pc,            \* stage0_smoke_gate: the position in main
    gate_args,          \* stage0_smoke_gate: the parsed arguments
    gate_state,         \* stage0_smoke_gate: the state written to the state file
    gate_rc,            \* stage0_smoke_gate: the exit code, NoExit before the end
    gate_started,       \* history: the stages whose command was started
    smoke_dir,          \* the file system at the smoke run directory
    pipe_pc,            \* post_run_pipeline: the position in main
    pipe_args,          \* post_run_pipeline: the parsed arguments
    pipe_files,         \* post_run_pipeline: what the run directory holds
    pipe_ran,           \* history: the tools run, with their exit codes
    pipe_writes,        \* history: the files main wrote itself
    pipe_rc,            \* post_run_pipeline: the exit code, NoExit before the end
    registry,           \* append_registry: the records of registry.jsonl
    reg_args,           \* append_registry: the inputs of the last invocation
    reg_rc,             \* append_registry: the exit code of the last invocation
    reg_calls           \* number of invocations so far

corr == <<runs, active_by_conv, by_run_id, queued_by_conv, queued_by_run_id,
          legacy_counter>>
mainVars == <<events, include_open, limit_runs, summaries>>
summaryVars == <<run, summary, duration_out, queue_delay_out>>
classifyVars == <<note, synthetic, category>>
gateVars == <<gate_pc, gate_args, gate_state, gate_rc, gate_started, smoke_dir>>
pipeVars == <<pipe_pc, pipe_args, pipe_files, pipe_ran, pipe_writes, pipe_rc>>
regVars == <<registry, reg_args, reg_rc, reg_calls>>
toolVars == <<gateVars, pipeVars, regVars>>
vars == <<runs, active_by_conv, by_run_id, queued_by_conv, queued_by_run_id,
          legacy_counter, evt, n, raised, since, conversation_key,
          queued_log, start_view, mainVars, summaryVars, classifyVars,
          toolVars>>

\* --------------------------------------------------------------- helpers
Put(f, k, v) == [x \in DOMAIN f \cup {k} |-> IF x = k THEN v ELSE f[x]]
Drop(f, k) == [x \in DOMAIN f \ {k} |-> f[x]]

SetMax(S) == CHOOSE x \in S : \A y \in S : y <= x
SetMin(S) == CHOOSE x \in S : \A y \in S : x <= y

\* f"{legacy_counter:05d}"
Pad5(s) == IF Len(s) >= 5 THEN s ELSE SubSeq("00000", 1, 5 - Len(s)) \o s
\* A variant without the padding.
LegacyRunIdUnpadded(k) == "legacy-run-" \o ToString(k)
\* f"legacy-run-{legacy_counter:05d}"
LegacyRunId(k) == "legacy-run-" \o Pad5(ToString(k))

\* str(x or "").strip() or default
OrDefault(s, d) == IF s = "" THEN d ELSE s

\* The filters at the head of the loop body.
Accepted(e) ==
    /\ ~(since /= Absent /\ e.at < since)
    /\ e.conversationKey /= ""
    /\ ~(conversation_key /= "" /\ e.conversationKey /= conversation_key)

\* A variant that evicts nothing.
DropStaleNever(q, at) == q
\* while queued_by_conv[conv] and (at - head) > 6h: popleft()
RECURSIVE DropStale(_, _)
DropStale(q, at) ==
    IF q /= <<>> /\ at - Head(q).at > StaleHorizon
    THEN DropStale(Tail(q), at)
    ELSE q

\* A variant: appendleft.
EnqueueFront(q, marker) == <<marker>> \o q
\* queued_by_conv[conv].append(at)
Enqueue(q, marker) == Append(q, marker)

\* A variant that never finds a timestamp under the run id.
PendingByIdIgnored(rid) == NoTime
\* The value of queued_by_run_id.pop(run_id, None).
PendingById(rid) ==
    IF rid \in DOMAIN queued_by_run_id THEN queued_by_run_id[rid] ELSE NoTime

\* A variant: get instead of pop.
PopByIdKeeps(f, rid) == f
\* What queued_by_run_id.pop(run_id, None) leaves in the map.
PopById(f, rid) == Drop(f, rid)

\* A variant that keeps one record per run id.
AppendRunUnlessKnown(rs, r) ==
    IF \E i \in 1..Len(rs) : rs[i].run_id = r.run_id THEN rs ELSE Append(rs, r)
\* runs.append(run)
AppendRun(rs, r) == Append(rs, r)

\* A variant: setdefault.
RegisterRunOnce(f, rid, idx) == IF rid \in DOMAIN f THEN f ELSE Put(f, rid, idx)
\* by_run_id[run_id] = run
RegisterRun(f, rid, idx) == Put(f, rid, idx)

NewRun(rid, e, queued_at) ==
    [run_id |-> rid,
     conversation_key |-> e.conversationKey,
     reason |-> OrDefault(e.reason, "request"),
     provider |-> OrDefault(e.provider, "unknown"),
     started_at |-> e.at,
     queued_at |-> queued_at,
     ended_at |-> Absent,
     status |-> "running",
     duration_ms |-> Absent,
     result_chars |-> Absent,
     transient_retries |-> 0,
     notes |-> <<>>,
     stale_alerts |-> 0]

\* A variant that falls back to the run created last.
ResolveTargetOrLatest(e) ==
    IF e.runId /= "" /\ e.runId \in DOMAIN by_run_id
    THEN by_run_id[e.runId]
    ELSE IF active_by_conv[e.conversationKey] /= 0
         THEN active_by_conv[e.conversationKey]
         ELSE Len(runs)
\* The target of a progress note or terminal event: the run of its run id
\* when known, else the conversation's active run; 0 when neither resolves.
ResolveTarget(e) ==
    IF e.runId /= "" /\ e.runId \in DOMAIN by_run_id
    THEN by_run_id[e.runId]
    ELSE active_by_conv[e.conversationKey]

\* One loop iteration: the next event of the stream becomes evt.
Consume(e) ==
    /\ ~raised
    /\ evt' = e
    /\ n' = n + 1
    /\ UNCHANGED <<since, conversation_key, mainVars, summaryVars, classifyVars,
                   toolVars>>

\* --------------------------------------------------------------- actions
\* An event one of the three filters rejects.
Skip(e) ==
    /\ Consume(e)
    /\ ~Accepted(e)
    /\ UNCHANGED <<corr, raised, queued_log, start_view>>

\* An accepted event of a kind no branch handles.
Ignored(e) ==
    /\ Consume(e)
    /\ Accepted(e)
    /\ UNCHANGED <<corr, raised, queued_log, start_view>>

MessageQueued(e) ==
    /\ Consume(e)
    /\ Accepted(e)
    /\ LET marker == [at |-> e.at, src |-> n + 1] IN
       IF e.runId /= ""
       THEN /\ queued_by_run_id' = Put(queued_by_run_id, e.runId, marker)
            /\ UNCHANGED queued_by_conv
       ELSE /\ queued_by_conv' =
                [queued_by_conv EXCEPT ![e.conversationKey] = Enqueue(@, marker)]
            /\ UNCHANGED queued_by_run_id
    /\ queued_log' = Append(queued_log,
            [src |-> n + 1, conversationKey |-> e.conversationKey,
             runId |-> e.runId, at |-> e.at])
    /\ UNCHANGED <<runs, active_by_conv, by_run_id, legacy_counter, raised,
                   start_view>>

\* A variant that evicts stale markers on every start.
PendingFifoEvicting(conv, byId, at) == DropStale(queued_by_conv[conv], at)
\* if queued_at is None: drop the stale markers at the head of the FIFO.
PendingFifo(conv, byId, at) ==
    IF byId THEN queued_by_conv[conv] ELSE DropStale(queued_by_conv[conv], at)

\* A variant that keeps the active run a conversation already has.
SetActiveIfIdle(conv, idx) ==
    IF active_by_conv[conv] = 0 THEN [active_by_conv EXCEPT ![conv] = idx]
    ELSE active_by_conv
\* active_by_conv[conv] = run
SetActive(conv, idx) == [active_by_conv EXCEPT ![conv] = idx]

RunStart(e) ==
    /\ Consume(e)
    /\ Accepted(e)
    /\ LET conv == e.conversationKey
           counter == IF e.runId = "" THEN legacy_counter + 1 ELSE legacy_counter
           rid == IF e.runId = "" THEN LegacyRunId(counter) ELSE e.runId
           popped == PendingById(rid)
           byId == popped /= NoTime
           fifo == PendingFifo(conv, byId, e.at)
           take == ~byId /\ fifo /= <<>>
           queued_at == IF take THEN Head(fifo) ELSE popped
       IN  /\ legacy_counter' = counter
           /\ queued_by_run_id' = PopById(queued_by_run_id, rid)
           /\ queued_by_conv' =
                [queued_by_conv EXCEPT ![conv] = IF take THEN Tail(fifo) ELSE fifo]
           /\ runs' = AppendRun(runs, NewRun(rid, e, queued_at))
           /\ active_by_conv' = SetActive(conv, Len(runs) + 1)
           /\ by_run_id' = RegisterRun(by_run_id, rid, Len(runs) + 1)
           /\ start_view' = Append(start_view,
                   [pos |-> n + 1, by_id |-> byId, fifo |-> queued_by_conv[conv]])
    /\ UNCHANGED <<raised, queued_log>>

\* A variant that puts the note in front.
PrependNote(notes, e) ==
    <<[at |-> e.at, text |-> e.note, synthetic |-> e.synthetic]>> \o notes
\* target.notes.append(ProgressNote(at, note_text, synthetic))
AppendNote(notes, e) ==
    Append(notes, [at |-> e.at, text |-> e.note, synthetic |-> e.synthetic])

ProgressNote(e) ==
    /\ Consume(e)
    /\ Accepted(e)
    /\ LET target == ResolveTarget(e) IN
       IF e.note = "" \/ target = 0
       THEN UNCHANGED runs
       ELSE runs' = [runs EXCEPT ![target].notes = AppendNote(@, e)]
    /\ UNCHANGED <<active_by_conv, by_run_id, queued_by_conv, queued_by_run_id,
                   legacy_counter, raised, queued_log, start_view>>

\* A variant that looks the run id up first.
StaleTargetById(e) == ResolveTarget(e)
\* target = active_by_conv.get(conv)
StaleTarget(e) == active_by_conv[e.conversationKey]

StaleProgress(e) ==
    /\ Consume(e)
    /\ Accepted(e)
    /\ LET target == StaleTarget(e) IN
       IF target = 0
       THEN UNCHANGED runs
       ELSE runs' = [runs EXCEPT ![target].stale_alerts = @ + 1]
    /\ UNCHANGED <<active_by_conv, by_run_id, queued_by_conv, queued_by_run_id,
                   legacy_counter, raised, queued_log, start_view>>

\* int(x) raises on a value that is no integer.
Raises(e) ==
    \/ e.durationMs = Malformed
    \/ e.resultChars = Malformed
    \/ e.transientRetries = Malformed

\* Lines 238-242 on the target record: the assignments made, in order, up to
\* the first int() that raises.
Finalize(r, e) ==
    LET r1 == [r EXCEPT !.ended_at = e.at]
        r2 == [r1 EXCEPT !.duration_ms =
                  IF e.durationMs /= Absent THEN e.durationMs ELSE @]
        r3 == [r2 EXCEPT !.result_chars =
                  IF e.resultChars /= Absent THEN e.resultChars ELSE @]
        r4 == [r3 EXCEPT !.transient_retries =
                  IF e.transientRetries = Absent THEN 0 ELSE e.transientRetries,
                         !.status =
                  IF e.event = "message.failed" THEN "failed" ELSE "completed"]
    IN  IF e.durationMs = Malformed THEN r1
        ELSE IF e.resultChars = Malformed THEN r2
        ELSE IF e.transientRetries = Malformed THEN r3
        ELSE r4

\* if active_by_conv.get(conv) is target: del active_by_conv[conv]
ClearActive(e, target) ==
    IF active_by_conv[e.conversationKey] = target
    THEN [active_by_conv EXCEPT ![e.conversationKey] = 0]
    ELSE active_by_conv

Terminal(e) ==
    /\ Consume(e)
    /\ Accepted(e)
    /\ LET target == ResolveTarget(e) IN
       IF target = 0
       THEN UNCHANGED <<runs, active_by_conv, raised>>
       ELSE /\ runs' = [runs EXCEPT ![target] = Finalize(@, e)]
            /\ raised' = Raises(e)
            /\ active_by_conv' = IF Raises(e) THEN active_by_conv
                                 ELSE ClearActive(e, target)
    /\ UNCHANGED <<by_run_id, queued_by_conv, queued_by_run_id, legacy_counter,
                   queued_log, start_view>>

\* ---------------------------------------------------------- specification
\* No report asked for, nothing to summarize, nothing to classify.
NoSummary == [hints |-> <<"none">>]
NoReport == <<NoSummary>>
NoRun == [run_id |-> ""]
MainIdle ==
    /\ events = <<>>
    /\ include_open = FALSE
    /\ limit_runs = 0
    /\ summaries = NoReport
MethodsIdle == duration_out = <<>> /\ queue_delay_out = <<>>
SummaryIdle == run = NoRun /\ summary = NoSummary /\ MethodsIdle
ClassifyIdle == note = "" /\ synthetic = FALSE /\ category = ""

\* No exit code yet.
NoExit == -1
NoCleanup == [policy |-> "", action |-> "unset"]
NoGateArgs ==
    [cleanup_smoke_policy |-> "", smoke_run_dir |-> "",
     smoke_required_file |-> {}, full_required_file |-> {}]
NoGateState == [status |-> "", phases |-> <<>>, smoke_cleanup |-> NoCleanup]
GateIdle ==
    /\ gate_pc = "idle"
    /\ gate_args = NoGateArgs
    /\ gate_state = NoGateState
    /\ gate_rc = NoExit
    /\ gate_started = <<>>
    /\ smoke_dir = "absent"
NoPipeArgs == [allow_registry_duplicate |-> FALSE, skip_experience |-> FALSE]
NoPipeFiles ==
    [run_dir |-> FALSE, metrics |-> FALSE, reflection |-> FALSE, snapshot |-> FALSE]
PipeIdle ==
    /\ pipe_pc = "idle"
    /\ pipe_args = NoPipeArgs
    /\ pipe_files = NoPipeFiles
    /\ pipe_ran = <<>>
    /\ pipe_writes = <<>>
    /\ pipe_rc = NoExit
NoRegArgs == [run_id |-> "", allow_duplicate |-> FALSE]
RegIdle ==
    /\ registry = <<>>
    /\ reg_args = NoRegArgs
    /\ reg_rc = NoExit
    /\ reg_calls = 0
ToolsIdle == GateIdle /\ PipeIdle /\ RegIdle

\* The state build_run_records starts from.
CorrInit ==
    /\ runs = <<>>
    /\ active_by_conv = [c \in Convs |-> 0]
    /\ by_run_id = [x \in {} |-> 0]
    /\ queued_by_conv = [c \in Convs |-> <<>>]
    /\ queued_by_run_id = [x \in {} |-> NoTime]
    /\ legacy_counter = 0
    /\ evt = NoEvent
    /\ n = 0
    /\ raised = FALSE
    /\ queued_log = <<>>
    /\ start_view = <<>>

Init ==
    /\ CorrInit
    /\ since \in SinceInputs
    /\ conversation_key \in ConvFilterInputs
    /\ MainIdle /\ SummaryIdle /\ ClassifyIdle
    /\ ToolsIdle

\* The whole loop, over events of every kind.
Next ==
    \/ \E e \in SkipEvents : n < MaxEvents /\ Skip(e)
    \/ \E e \in OtherEvents : n < MaxEvents /\ Ignored(e)
    \/ \E e \in QueuedEvents : n < MaxEvents /\ MessageQueued(e)
    \/ \E e \in StartEvents : n < MaxEvents /\ RunStart(e)
    \/ \E e \in NoteEvents : n < MaxEvents /\ ProgressNote(e)
    \/ \E e \in StaleEvents : n < MaxEvents /\ StaleProgress(e)
    \/ \E e \in TerminalEvents : n < MaxEvents /\ Terminal(e)

Spec == Init /\ [][Next]_vars

\* The pass without filters over a stream of queue markers and run starts.
InitQueue ==
    /\ Init
    /\ since = Absent
    /\ conversation_key = ""

NextQueue ==
    \/ \E e \in QueueSpecEvents("message.queued") :
          n < MaxQueueEvents /\ MessageQueued(e)
    \/ \E e \in QueueSpecEvents("agent.run.start") :
          n < MaxQueueEvents /\ RunStart(e)

SpecQueue == InitQueue /\ [][NextQueue]_vars

\* The pass without filters over starts, notes, stale alerts and terminal
\* events of two conversations, with and without the run id r1, delivered
\* in order of time: the k-th event is k seconds after the start of the log.
RouteTargets == {<<"c1", "">>, <<"c1", "r1">>, <<"c2", "">>, <<"c2", "r1">>}
RouteStarts == {BaseEvent("agent.run.start", p[1], p[2], 0) : p \in RouteTargets}
RouteNotes ==
    {[BaseEvent("agent.progress.note", p[1], p[2], 0) EXCEPT !.note = "Thinking: plan"] :
        p \in RouteTargets}
      \cup {BaseEvent("agent.progress.note", "c1", "", 0)}
RouteStales ==
    {BaseEvent("job.watch.stale_progress", p[1], p[2], 0) :
        p \in RouteTargets \ {<<"c2", "r1">>}}
RouteTerminals ==
    {[BaseEvent("agent.run.done", p[1], p[2], 0) EXCEPT
          !.durationMs = 55000, !.resultChars = 120, !.transientRetries = 1] :
        p \in RouteTargets}
      \cup {BaseEvent("message.failed", "c1", r, 0) : r \in RunIdInputs}
      \cup {[BaseEvent("agent.run.done", "c1", "", 0) EXCEPT !.resultChars = Malformed]}
\* The event with the time of its place in the log.
AtNext(e) == [e EXCEPT !.at = n + 1]

InitRoute ==
    /\ Init
    /\ since = Absent
    /\ conversation_key = ""

NextRoute ==
    \/ \E e \in RouteStarts : n < MaxRouteEvents /\ RunStart(AtNext(e))
    \/ \E e \in RouteNotes : n < MaxRouteEvents /\ ProgressNote(AtNext(e))
    \/ \E e \in RouteStales : n < MaxRouteEvents /\ StaleProgress(AtNext(e))
    \/ \E e \in RouteTerminals : n < MaxRouteEvents /\ Terminal(AtNext(e))

SpecRoute == InitRoute /\ [][NextRoute]_vars

\* ------------------------------------------------------- text functions
\* Python's str methods on the characters the notes are written in.
UpperChars == "ABCDEFGHIJKLMNOPQRSTUVWXYZ"
LowerChars == "abcdefghijklmnopqrstuvwxyz"
DigitChars == "0123456789"
SpaceChars == " \t\n"
Ch(s, i) == SubSeq(s, i, i)
From(s, i) == SubSeq(s, i, Len(s))
CharSet(chars) == {Ch(chars, k) : k \in 1..Len(chars)}
UpperSet == CharSet(UpperChars)
DigitSet == CharSet(DigitChars)
SpaceSet == CharSet(SpaceChars)
\* str.lower on one character
LowerTable ==
    [c \in UpperSet |-> Ch(LowerChars, CHOOSE k \in 1..Len(UpperChars) : Ch(UpperChars, k) = c)]
LowerCh(c) == IF c \in UpperSet THEN LowerTable[c] ELSE c
RECURSIVE lower(_)
lower(s) == IF s = "" THEN "" ELSE LowerCh(Ch(s, 1)) \o lower(From(s, 2))
RECURSIVE lstrip(_)
lstrip(s) == IF s /= "" /\ Ch(s, 1) \in SpaceSet THEN lstrip(From(s, 2)) ELSE s
RECURSIVE rstrip(_)
rstrip(s) ==
    IF s /= "" /\ Ch(s, Len(s)) \in SpaceSet
    THEN rstrip(SubSeq(s, 1, Len(s) - 1))
    ELSE s
strip(s) == rstrip(lstrip(s))
startswith(s, prefix) == Len(s) >= Len(prefix) /\ SubSeq(s, 1, Len(prefix)) = prefix
\* needle in s
contains(s, needle) ==
    \E i \in 1..(Len(s) - Len(needle) + 1) : SubSeq(s, i, i + Len(needle) - 1) = needle

\* "tail -n" in lower or "sleep " in lower or "poll" in lower
PollingText(lo) ==
    contains(lo, "tail -n") \/ contains(lo, "sleep ") \/ contains(lo, "poll")

\* A variant that looks for the stall phrases before the finished prefixes.
classify_stall_first(nt, syn) ==
    LET lo == lower(strip(nt)) IN
    IF startswith(lo, "thinking:") THEN "thinking"
    ELSE IF startswith(lo, "running shell command:") \/ startswith(lo, "running tool:")
    THEN (IF PollingText(lo) THEN "polling" ELSE "action")
    ELSE IF contains(lo, "no new agent events") \/ contains(lo, "possible stall")
    THEN "stall"
    ELSE IF startswith(lo, "shell command finished") \/ startswith(lo, "tool finished")
    THEN "action_result"
    ELSE IF contains(lo, "waiting for an earlier request") THEN "queue_wait"
    ELSE IF startswith(lo, "queued request") \/ startswith(lo, "starting ")
    THEN "overhead"
    ELSE IF syn THEN "synthetic"
    ELSE "other"

classify_progress_note(nt, syn) ==
    LET lo == lower(strip(nt)) IN
    IF startswith(lo, "thinking:") THEN "thinking"
    ELSE IF startswith(lo, "running shell command:") \/ startswith(lo, "running tool:")
    THEN (IF PollingText(lo) THEN "polling" ELSE "action")
    ELSE IF startswith(lo, "shell command finished") \/ startswith(lo, "tool finished")
    THEN "action_result"
    ELSE IF contains(lo, "no new agent events") \/ contains(lo, "possible stall")
    THEN "stall"
    ELSE IF contains(lo, "waiting for an earlier request") THEN "queue_wait"
    ELSE IF startswith(lo, "queued request") \/ startswith(lo, "starting ")
    THEN "overhead"
    ELSE IF syn THEN "synthetic"
    ELSE "other"

\* ------------------------------------------- normalize_note_for_repeat
WordSet == CharSet(UpperChars \o LowerChars \o DigitChars \o "_")
IsDigit(c) == c \in DigitSet
\* The length of the run of digits s starts with: what \d+ takes.
RECURSIVE DigitRun(_)
DigitRun(s) == IF s /= "" /\ IsDigit(Ch(s, 1)) THEN 1 + DigitRun(From(s, 2)) ELSE 0
\* s starts with the shape: "d" stands for a digit, any other character for
\* itself in either case.
MatchesShape(s, shape) ==
    /\ Len(s) >= Len(shape)
    /\ \A k \in 1..Len(shape) :
          IF Ch(shape, k) = "d" THEN IsDigit(Ch(s, k)) ELSE LowerCh(Ch(s, k)) = Ch(shape, k)
\* (?:z|[+\-]\d{2}:\d{2})
IsoZone(s) ==
    IF MatchesShape(s, "z") THEN 1
    ELSE IF MatchesShape(s, "+dd:dd") \/ MatchesShape(s, "-dd:dd") THEN 6
    ELSE 0
\* The length of the match of the timestamp pattern at the start of s, 0 for
\* no match: date, "t", time, an optional fraction and the zone.
IsoMatch(s) ==
    IF ~MatchesShape(s, "dddd-dd-ddtdd:dd:dd") THEN 0
    ELSE LET rest == From(s, 20)
             digits == IF MatchesShape(rest, ".d") THEN DigitRun(From(rest, 2)) ELSE 0
             fraction == IF digits > 0 THEN 1 + digits ELSE 0
             zone == IsoZone(From(rest, fraction + 1))
         IN  IF zone > 0 THEN 19 + fraction + zone ELSE 0
\* re.sub(<timestamp pattern>, "<iso>", text, flags=re.I)
RECURSIVE ReplaceIso(_)
ReplaceIso(s) ==
    IF s = "" THEN ""
    ELSE LET k == IsoMatch(s) IN
         IF k > 0 THEN "<iso>" \o ReplaceIso(From(s, k + 1))
         ELSE Ch(s, 1) \o ReplaceIso(From(s, 2))
\* re.sub(r"\b\d+\b", "<n>", text): a run of digits with no word character
\* on either side becomes "<n>"; afterWord tells whether the character
\* before s is a word character.
RECURSIVE ReplaceNumbers(_, _)
ReplaceNumbers(s, afterWord) ==
    IF s = "" THEN ""
    ELSE LET k == DigitRun(s)
             standalone == /\ k > 0
                           /\ ~afterWord
                           /\ (k = Len(s) \/ Ch(s, k + 1) \notin WordSet)
         IN  IF standalone THEN "<n>" \o ReplaceNumbers(From(s, k + 1), TRUE)
             ELSE Ch(s, 1) \o ReplaceNumbers(From(s, 2), Ch(s, 1) \in WordSet)
normalize_note_for_repeat(nt) == ReplaceNumbers(ReplaceIso(strip(nt)), FALSE)

\* ---------------------------------------------------------- RunRecord
\* Seconds as milliseconds: the summarizer's durations are kept in
\* milliseconds, so that duration_ms / 1000.0 is exact.
Ms(seconds) == 1000 * seconds
\* A variant without the clamp.
Unclamped(x) == x
\* max(0.0, x)
Max0(x) == IF x > 0 THEN x ELSE 0

\* RunRecord.duration_seconds, in milliseconds; Absent for None.
duration_seconds(r) ==
    IF r.duration_ms /= Absent THEN Max0(r.duration_ms)
    ELSE IF r.ended_at /= Absent THEN Max0(Ms(r.ended_at - r.started_at))
    ELSE Absent

\* RunRecord.queue_delay_seconds, in milliseconds; Absent for None.
queue_delay_seconds(r) ==
    IF r.queued_at = NoTime THEN Absent
    ELSE Max0(Ms(r.started_at - r.queued_at.at))

\* A variant that always places the end at started_at + duration.
end_timestamp_from_duration(r) ==
    IF duration_seconds(r) /= Absent THEN Ms(r.started_at) + duration_seconds(r)
    ELSE Ms(r.started_at)
\* RunRecord.end_timestamp_for_notes, in milliseconds.
end_timestamp_for_notes(r) ==
    IF r.ended_at /= Absent THEN Ms(r.ended_at)
    ELSE IF duration_seconds(r) /= Absent THEN Ms(r.started_at) + duration_seconds(r)
    ELSE Ms(r.started_at)

\* -------------------------------------------------------- summarize_run
\* sorted(run.notes, key=lambda n: n.at): a stable sort.
InsertNote(sorted, x) ==
    LET k == Cardinality({i \in 1..Len(sorted) : sorted[i].at <= x.at})
    IN  SubSeq(sorted, 1, k) \o <<x>> \o SubSeq(sorted, k + 1, Len(sorted))
RECURSIVE SortedNotes(_)
SortedNotes(ns) ==
    IF ns = <<>> THEN <<>>
    ELSE InsertNote(SortedNotes(SubSeq(ns, 1, Len(ns) - 1)), ns[Len(ns)])

NoteCategory(nt) == classify_progress_note(nt.text, nt.synthetic)

RECURSIVE SumOver(_, _)
SumOver(f, S) ==
    IF S = {} THEN 0
    ELSE LET x == CHOOSE y \in S : TRUE IN f[x] + SumOver(f, S \ {x})

\* The category of each note, and the normalized text of each.
NoteCategories(notes) == [i \in 1..Len(notes) |-> NoteCategory(notes[i])]
NoteKeys(notes) == [i \in 1..Len(notes) |-> normalize_note_for_repeat(notes[i].text)]

\* Counter: the occurrences of each value of the sequence.
Counter(seq) ==
    [c \in {seq[i] : i \in 1..Len(seq)} |->
        Cardinality({i \in 1..Len(seq) : seq[i] = c})]

\* A variant in which every note runs to the end of the run.
NextAtRunEnd(notes, idx, end_at) == end_at
\* nxt: the next note's time, the end of the run for the last note.
NextAt(notes, idx, end_at) ==
    IF idx + 1 <= Len(notes) THEN Ms(notes[idx + 1].at) ELSE end_at

\* cat_seconds, in milliseconds: each note owns the time up to the next
\* note; intervals that are not positive are skipped.
CategorySeconds(r, notes, cats, duration_sec) ==
    IF notes /= <<>> /\ duration_sec /= Absent
    THEN LET end_at == end_timestamp_for_notes(r)
             span == [i \in 1..Len(notes) |-> NextAt(notes, i, end_at) - Ms(notes[i].at)]
             counted == {i \in 1..Len(notes) : ~(span[i] <= 0)}
         IN  [c \in {cats[i] : i \in counted} |->
                SumOver(span, {i \in counted : cats[i] = c})]
    ELSE [c \in {} |-> 0]

\* Python's order on str: by code point, a prefix first (the printable
\* characters but the backquote, which a string here cannot hold).
AsciiChars ==
    "\t\n !\"#$%&'()*+,-./" \o DigitChars \o ":;<=>?@" \o UpperChars
        \o "[\\]^_" \o LowerChars \o "{|}~"
RankTable ==
    [c \in CharSet(AsciiChars) |-> CHOOSE k \in 1..Len(AsciiChars) : Ch(AsciiChars, k) = c]
CharRank(c) == RankTable[c]
RECURSIVE StrLess(_, _)
StrLess(a, b) ==
    IF b = "" THEN FALSE
    ELSE IF a = "" THEN TRUE
    ELSE IF Ch(a, 1) = Ch(b, 1) THEN StrLess(From(a, 2), From(b, 2))
    ELSE CharRank(Ch(a, 1)) < CharRank(Ch(b, 1))

\* repeated: the groups with count >= 2, sorted by (-count, text).
RECURSIVE SortGroups(_, _)
SortGroups(counter, keys) ==
    IF keys = {} THEN <<>>
    ELSE LET first == CHOOSE k \in keys : \A o \in keys \ {k} :
                          \/ counter[k] > counter[o]
                          \/ counter[k] = counter[o] /\ StrLess(k, o)
         IN  << <<first, counter[first]>> >> \o SortGroups(counter, keys \ {first})
Repeated(repeat_counter) ==
    SortGroups(repeat_counter, {k \in DOMAIN repeat_counter : repeat_counter[k] >= 2})

\* A variant that counts the repeated polling groups.
PollingGroups(repeated) ==
    Cardinality({i \in 1..Len(repeated) : PollingText(lower(repeated[i][1]))})
\* polling_repeats: the occurrences summed over the repeated groups whose
\* text holds a polling keyword.
PollingRepeats(repeated) ==
    SumOver([i \in 1..Len(repeated) |-> repeated[i][2]],
            {i \in 1..Len(repeated) : PollingText(lower(repeated[i][1]))})

\* cat_seconds.get(cat, 0.0)
SecondsOf(cat_seconds, cat) == IF cat \in DOMAIN cat_seconds THEN cat_seconds[cat] ELSE 0
\* share >= percent / 100 and share <= percent / 100, where share is
\* seconds / duration_sec for a duration above 0 and 0.0 otherwise.
ShareAtLeast(seconds, duration_sec, percent) ==
    IF duration_sec /= Absent /\ duration_sec > 0
    THEN 100 * seconds >= percent * duration_sec
    ELSE 0 >= percent
ShareAtMost(seconds, duration_sec, percent) ==
    IF duration_sec /= Absent /\ duration_sec > 0
    THEN 100 * seconds <= percent * duration_sec
    ELSE 0 <= percent

\* The hint texts, with ' where the source has a backquote.
HintThinking == "High thinking-time share on a long run; prefer callback/watch mode and analyze on artifact checkpoints."
HintPolling == "Polling-heavy pattern detected; switch to 'job_start + watch + thenTask' and reduce foreground babysitting."
HintStall == "Stall signals observed; add artifact gates or low-frequency watcher heartbeat to avoid noisy loops."
HintQueue == "Queue delay is significant; thread had an active in-flight run."
HintNoNotes == "No fine-grained progress notes in log. Enable 'RELAY_PROGRESS_TRACE_ENABLED=true' for detailed profiling."

\* if cond: hints.append(hint)
AppendIf(cond, hint) == IF cond THEN <<hint>> ELSE <<>>
\* A variant that looks at the stall signals before the polling.
HintsStallFirst(thinking, polling, stall, queue, empty) ==
    AppendIf(thinking, HintThinking) \o AppendIf(stall, HintStall)
        \o AppendIf(polling, HintPolling) \o AppendIf(queue, HintQueue)
        \o AppendIf(empty, HintNoNotes)
\* The five ifs of lines 284-293, in order.
Hints(thinking, polling, stall, queue, empty) ==
    AppendIf(thinking, HintThinking) \o AppendIf(polling, HintPolling)
        \o AppendIf(stall, HintStall) \o AppendIf(queue, HintQueue)
        \o AppendIf(empty, HintNoNotes)

summarize_run(r) ==
    LET duration_sec == duration_seconds(r)
        queue_delay_sec == queue_delay_seconds(r)
        notes == SortedNotes(r.notes)
        cats == NoteCategories(notes)
        cat_counts == Counter(cats)
        repeat_counter == Counter(NoteKeys(notes))
        cat_seconds == CategorySeconds(r, notes, cats, duration_sec)
        repeated == Repeated(repeat_counter)
        stall_count == IF "stall" \in DOMAIN cat_counts THEN cat_counts["stall"] ELSE 0
        polling_repeats == PollingRepeats(repeated)
        truthy == duration_sec /= Absent /\ duration_sec /= 0
    IN  [run_id |-> r.run_id,
         conversation_key |-> r.conversation_key,
         reason |-> r.reason,
         provider |-> r.provider,
         status |-> r.status,
         started_at |-> r.started_at,
         ended_at |-> r.ended_at,
         duration_sec |-> duration_sec,
         queue_delay_sec |-> queue_delay_sec,
         result_chars |-> r.result_chars,
         transient_retries |-> r.transient_retries,
         stale_alerts |-> r.stale_alerts,
         note_count |-> Len(notes),
         category_counts |-> cat_counts,
         category_seconds |-> cat_seconds,
         repeated_notes |-> SubSeq(repeated, 1, IF Len(repeated) < 5 THEN Len(repeated) ELSE 5),
         hints |-> Hints(
            /\ truthy
            /\ duration_sec >= Ms(20 * 60)
            /\ ShareAtLeast(SecondsOf(cat_seconds, "thinking"), duration_sec, 35)
            /\ ShareAtMost(SecondsOf(cat_seconds, "action"), duration_sec, 25),
            \/ ShareAtLeast(SecondsOf(cat_seconds, "polling"), duration_sec, 20)
            \/ polling_repeats >= 3,
            stall_count >= 2 \/ r.stale_alerts >= 1,
            queue_delay_sec /= Absent /\ queue_delay_sec >= Ms(30),
            notes = <<>>)]

\* Note texts: every prefix a rule looks for (in mixed case, with leading
\* blanks, and cut short of its last character) before every phrase a rule
\* looks for.
NotePrefixes ==
    {"", "Thinking: ", "thinking:", "Thinking ", "  RUNNING SHELL COMMAND: ",
     "Running tool: ", "Shell command finished ", "Tool finished: ",
     "Queued request ", "Starting ", "starting", "Still working; "}
NoteBodies ==
    {"", "analyze", "tail -n 50 log", "sleep 5", "poll status",
     "No new agent events", "possible stall", "waiting for an earlier request",
     "possible stall; waiting for an earlier request; poll"}
NoteTexts == {prefix \o body : prefix \in NotePrefixes, body \in NoteBodies}

\* classify_progress_note applied to one note.
Classify ==
    /\ category = ""
    /\ category' = classify_progress_note(note, synthetic)
    /\ UNCHANGED <<corr, evt, n, raised, since, conversation_key, queued_log,
                   start_view, mainVars, summaryVars, note, synthetic,
                   toolVars>>

InitClassify ==
    /\ CorrInit
    /\ since = Absent
    /\ conversation_key = ""
    /\ MainIdle /\ SummaryIdle
    /\ ToolsIdle
    /\ note \in NoteTexts
    /\ synthetic \in BOOLEAN
    /\ category = ""

NextClassify == Classify

SpecClassify == InitClassify /\ [][NextClassify]_vars

\* The runs summarize_run is applied to under SpecSummary: a run started at
\* 100 s, open, ended at once, or ended after 20 minutes with or without a
\* durationMs (the 20 minutes, or 50 minutes), queued 30 s before its
\* start, 30 s after it or not at all, with or without a stale alert, with
\* up to MaxNotes notes in any order of time.
SummaryTexts ==
    {"Thinking: plan", "Running shell command: sleep 5", "Possible stall detected"}
LateTexts == {"Running shell command: sleep 7", "Running tool: analyze"}
SummaryNotes ==
    {[at |-> t, text |-> x, synthetic |-> FALSE] : t \in {100, 700}, x \in SummaryTexts}
        \cup {[at |-> 700, text |-> x, synthetic |-> FALSE] : x \in LateTexts}
NoteLists(k) == UNION {[1..m -> SummaryNotes] : m \in 0..k}
SummaryEnds ==
    {<<Absent, Absent>>, <<100, Absent>>}
        \cup {<<1300, d>> : d \in {Absent, 1200000, 3000000}}
SummarySignals ==
    {<<NoTime, 0>>, <<[at |-> 70, src |-> 1], 0>>, <<[at |-> 70, src |-> 1], 1>>,
     <<[at |-> 130, src |-> 1], 0>>}
RunInputs ==
    {[run_id |-> "r1", conversation_key |-> "c1", reason |-> "request",
      provider |-> "unknown", started_at |-> 100, queued_at |-> sig[1],
      ended_at |-> ed[1],
      status |-> IF ed[1] = Absent THEN "running" ELSE "completed",
      duration_ms |-> ed[2], result_chars |-> Absent, transient_retries |-> 0,
      notes |-> ns, stale_alerts |-> sig[2]] :
        ns \in NoteLists(MaxNotes), ed \in SummaryEnds, sig \in SummarySignals}

\* summarize_run applied to one run.
Summarize ==
    /\ summary = NoSummary
    /\ summary' = summarize_run(run)
    /\ UNCHANGED <<corr, evt, n, raised, since, conversation_key, queued_log,
                   start_view, mainVars, classifyVars, run, duration_out,
                   queue_delay_out, toolVars>>

InitSummary ==
    /\ CorrInit
    /\ since = Absent
    /\ conversation_key = ""
    /\ MainIdle /\ ClassifyIdle
    /\ ToolsIdle
    /\ run \in RunInputs
    /\ summary = NoSummary
    /\ MethodsIdle

NextSummary == Summarize

SpecSummary == InitSummary /\ [][NextSummary]_vars

\* The runs the two RunRecord methods are applied to: started at 100 s or
\* 1000 s; open, or ended 50 s before the start, at the start, or 1.5 s,
\* 20 minutes after it, then with or without a durationMs (negative, zero,
\* the 20 minutes, 50 minutes); queued 30 s before the start, at the
\* start, 30 s after it or not at all.
MethodStarts == {100, 1000}
MethodSpans == {-50, 0, 1200}
MethodOverrides == {Absent, -5000, 0, 1500, 1200000, 3000000}
MethodQueueOffsets == {-30, 0, 30}
MethodEnds ==
    {<<Absent, Absent>>} \cup {<<d, o>> : d \in MethodSpans, o \in MethodOverrides}
MethodRuns ==
    {[run_id |-> "r1", conversation_key |-> "c1", reason |-> "request",
      provider |-> "unknown", started_at |-> st,
      queued_at |-> IF q = Absent THEN NoTime ELSE [at |-> st + q, src |-> 1],
      ended_at |-> IF ed[1] = Absent THEN Absent ELSE st + ed[1],
      status |-> IF ed[1] = Absent THEN "running" ELSE "completed",
      duration_ms |-> ed[2], result_chars |-> Absent, transient_retries |-> 0,
      notes |-> <<>>, stale_alerts |-> 0] :
        st \in MethodStarts, ed \in MethodEnds,
        q \in {Absent} \cup MethodQueueOffsets}

\* run.duration_seconds()
DurationSeconds ==
    /\ duration_out = <<>>
    /\ duration_out' = <<duration_seconds(run)>>
    /\ UNCHANGED <<corr, evt, n, raised, since, conversation_key, queued_log,
                   start_view, mainVars, classifyVars, run, summary,
                   queue_delay_out, toolVars>>
\* run.queue_delay_seconds()
QueueDelaySeconds ==
    /\ queue_delay_out = <<>>
    /\ queue_delay_out' = <<queue_delay_seconds(run)>>
    /\ UNCHANGED <<corr, evt, n, raised, since, conversation_key, queued_log,
                   start_view, mainVars, classifyVars, run, summary,
                   duration_out, toolVars>>

InitMethods ==
    /\ CorrInit
    /\ since = Absent
    /\ conversation_key = ""
    /\ MainIdle /\ ClassifyIdle
    /\ ToolsIdle
    /\ run \in MethodRuns
    /\ summary = NoSummary
    /\ MethodsIdle

NextMethods == DurationSeconds \/ QueueDelaySeconds

SpecMethods == InitMethods /\ [][NextMethods]_vars

\* ------------------------------------------------------------------ main
\* runs.sort(key=lambda r: r.started_at, reverse=True): a stable sort, the
\* latest start first.
InsertRun(sorted, x) ==
    LET k == Cardinality({i \in 1..Len(sorted) : sorted[i].started_at >= x.started_at})
    IN  SubSeq(sorted, 1, k) \o <<x>> \o SubSeq(sorted, k + 1, Len(sorted))
RECURSIVE SortedRuns(_)
SortedRuns(rs) ==
    IF rs = <<>> THEN <<>>
    ELSE InsertRun(SortedRuns(SubSeq(rs, 1, Len(rs) - 1)), rs[Len(rs)])

\* A variant that keeps the open runs whatever --include-open says.
KeepAllRuns(rs, open) == rs
\* if not args.include_open: keep the completed and failed runs
ReportedRuns(rs, open) ==
    IF open THEN rs
    ELSE SelectSeq(rs, LAMBDA r : r.status \in {"completed", "failed"})

\* runs[: max(1, args.limit_runs)]
LimitRuns(rs, limit) ==
    LET m == IF limit > 1 THEN limit ELSE 1
    IN  SubSeq(rs, 1, IF Len(rs) < m THEN Len(rs) ELSE m)

\* The stream of the example of spec section 8, the run starting at t0 + 5.
ExampleStream(t0) ==
    <<BaseEvent("message.queued", "c1", "r1", t0),
      BaseEvent("agent.run.start", "c1", "r1", t0 + 5),
      [BaseEvent("agent.progress.note", "c1", "", t0 + 5) EXCEPT !.note = "Thinking: plan"],
      [BaseEvent("agent.progress.note", "c1", "", t0 + 30) EXCEPT
            !.note = "Running shell command: tail -n 50 log"],
      [BaseEvent("agent.progress.note", "c1", "", t0 + 45) EXCEPT !.note = "Running tool: analyze"],
      [BaseEvent("agent.run.done", "c1", "r1", t0 + 60) EXCEPT !.durationMs = 55000]>>

\* The events of seq at the places of idx, in order.
RECURSIVE Pick(_, _)
Pick(seq, idx) ==
    IF idx = {} THEN <<>>
    ELSE Pick(seq, idx \ {SetMax(idx)}) \o <<seq[SetMax(idx)]>>
\* seq with the events of extra put before its last event.
BeforeLast(seq, extra) ==
    IF seq = <<>> THEN extra
    ELSE SubSeq(seq, 1, Len(seq) - 1) \o extra \o <<seq[Len(seq)]>>

\* The example's stream with any of its events lost, and with a stale
\* alert, an event of another kind or an event without conversation key
\* before its last event.
ExampleExtras ==
    {<<>>, <<BaseEvent("job.watch.stale_progress", "c1", "", 50)>>,
     <<BaseEvent("relay.other", "c1", "", 50)>>,
     <<BaseEvent("agent.progress.note", "", "", 50)>>}
ExampleStreams ==
    {BeforeLast(Pick(ExampleStream(t0), idx), extra) :
        t0 \in {0, 1000}, idx \in SUBSET (1..6), extra \in ExampleExtras}

\* Streams of starts and terminal events of two conversations, the starts
\* not in order of time.
ReportEvents ==
    {BaseEvent("agent.run.start", "c1", "", 10),
     BaseEvent("agent.run.start", "c1", "r1", 50),
     BaseEvent("agent.run.start", "c2", "", 90),
     BaseEvent("agent.run.done", "c1", "", 60),
     BaseEvent("message.failed", "c2", "", 95)}
ReportStreams == UNION {[1..m -> ReportEvents] : m \in 0..MaxStreamLen}

\* The event the loop takes next, if any.
NextEvent == IF n < Len(events) THEN {events[n + 1]} ELSE {}

\* main after the loop: filter, sort, limit and summarize.
Report ==
    /\ n = Len(events)
    /\ ~raised
    /\ summaries = NoReport
    /\ LET reported == LimitRuns(SortedRuns(ReportedRuns(runs, include_open)), limit_runs)
       IN  summaries' = [i \in 1..Len(reported) |-> summarize_run(reported[i])]
    /\ UNCHANGED <<corr, evt, n, raised, since, conversation_key, queued_log,
                   start_view, events, include_open, limit_runs, summaryVars,
                   classifyVars, toolVars>>

InitMain ==
    /\ CorrInit
    /\ since = Absent
    /\ conversation_key = ""
    /\ events \in ExampleStreams \cup ReportStreams
    /\ include_open \in BOOLEAN
    /\ limit_runs \in {0, 2, 25}
    /\ summaries = NoReport
    /\ SummaryIdle /\ ClassifyIdle
    /\ ToolsIdle

NextMain ==
    \/ \E e \in NextEvent : Skip(e)
    \/ \E e \in NextEvent : e.event = "message.queued" /\ MessageQueued(e)
    \/ \E e \in NextEvent : e.event = "agent.run.start" /\ RunStart(e)
    \/ \E e \in NextEvent : e.event = "agent.progress.note" /\ ProgressNote(e)
    \/ \E e \in NextEvent : e.event = "job.watch.stale_progress" /\ StaleProgress(e)
    \/ \E e \in NextEvent : e.event \in TerminalKinds /\ Terminal(e)
    \/ \E e \in NextEvent : e.event = "relay.other" /\ Ignored(e)
    \/ Report

SpecMain == InitMain /\ [][NextMain]_vars

\* ------------------------------------------------------ stage0_smoke_gate
\* The profiler at rest, for the specifications of the other tools.
profilerVars == <<corr, evt, n, raised, since, conversation_key, queued_log,
                  start_view, mainVars, summaryVars, classifyVars>>
ProfilerIdle ==
    /\ CorrInit
    /\ since = Absent
    /\ conversation_key = ""
    /\ MainIdle /\ SummaryIdle /\ ClassifyIdle

\* The exit codes of a stage's command, and the required artifacts.
ExitCodes == {0, 1, 137}
RequiredFiles == {"metrics.json"}
DirStates == {"absent", "file", "dir"}
\* --smoke-run-dir: not given, under the project root, outside it.
SmokeRunDirs == {"", "runs/smoke", "../smoke"}
GateArgs ==
    [cleanup_smoke_policy : {"keep_all", "keep_manifest_only"},
     smoke_run_dir : SmokeRunDirs,
     smoke_required_file : SUBSET RequiredFiles,
     full_required_file : SUBSET RequiredFiles]

\* within_path of a path resolved under the project root.
within_path(raw) == ~startswith(raw, "../") /\ ~startswith(raw, "/")

\* A variant of run_stage that looks at the exit code only.
run_stage_exit_only(name, returncode, missing) ==
    [name |-> name, exit_code |-> returncode, missing_files |-> missing,
     status |-> IF returncode /= 0 THEN "failed_exit" ELSE "passed"]
\* run_stage after the command returned: the StageResult.
run_stage(name, returncode, missing) ==
    [name |-> name, exit_code |-> returncode, missing_files |-> missing,
     status |-> IF returncode /= 0 THEN "failed_exit"
                ELSE IF missing /= {} THEN "failed_missing_artifacts"
                ELSE "passed"]

\* maybe_cleanup_smoke: the summary it returns; it deletes the directory
\* exactly when the action is deleted_smoke_run_dir_kept_manifest.
maybe_cleanup_smoke(smoke_run_dir, cleanup_policy, dir) ==
    [policy |-> cleanup_policy,
     action |->
        IF cleanup_policy /= "keep_manifest_only" THEN "none"
        ELSE IF smoke_run_dir = "" THEN "skipped_missing_smoke_run_dir"
        ELSE IF dir = "absent" THEN "skipped_smoke_run_dir_not_found"
        ELSE IF dir /= "dir" THEN "skipped_smoke_run_dir_not_directory"
        ELSE IF ~within_path(smoke_run_dir) THEN "skipped_outside_project_root"
        ELSE "deleted_smoke_run_dir_kept_manifest"]

\* main up to the first write of the state file.
GateStart ==
    /\ gate_pc = "main"
    /\ gate_state' = [status |-> "running", phases |-> <<>>, smoke_cleanup |-> NoCleanup]
    /\ gate_pc' = "smoke"
    /\ UNCHANGED <<gate_args, gate_rc, gate_started, smoke_dir, profilerVars, pipeVars, regVars>>

\* run_stage starts the smoke command.
StartSmoke ==
    /\ gate_pc = "smoke"
    /\ gate_started' = Append(gate_started, "smoke")
    /\ gate_pc' = "smoke_running"
    /\ UNCHANGED <<gate_args, gate_state, gate_rc, smoke_dir, profilerVars, pipeVars, regVars>>

\* The smoke command returns; its result is appended to the phases.
FinishSmoke ==
    /\ gate_pc = "smoke_running"
    /\ \E returncode \in ExitCodes, missing \in SUBSET gate_args.smoke_required_file,
          dir \in DirStates :
          /\ smoke_dir' = dir
          /\ gate_state' = [gate_state EXCEPT
                !.phases = Append(@, run_stage("smoke", returncode, missing))]
    /\ gate_pc' = "smoke_done"
    /\ UNCHANGED <<gate_args, gate_rc, gate_started, profilerVars, pipeVars, regVars>>

\* if smoke_result.status != "passed": block and return 20 or 21.
BlockOnSmoke ==
    /\ gate_pc = "smoke_done"
    /\ gate_state.phases[1].status /= "passed"
    /\ IF gate_state.phases[1].status = "failed_exit"
       THEN /\ gate_state' = [gate_state EXCEPT !.status = "blocked_smoke_failed_exit"]
            /\ gate_rc' = 20
       ELSE /\ gate_state' = [gate_state EXCEPT !.status = "blocked_smoke_missing_artifacts"]
            /\ gate_rc' = 21
    /\ gate_pc' = "exit"
    /\ UNCHANGED <<gate_args, gate_started, smoke_dir, profilerVars, pipeVars, regVars>>

\* The smoke stage passed: the cleanup, recorded in the state.
CleanupSmoke ==
    /\ gate_pc = "smoke_done"
    /\ gate_state.phases[1].status = "passed"
    /\ LET cleanup_result == maybe_cleanup_smoke(gate_args.smoke_run_dir,
                                gate_args.cleanup_smoke_policy, smoke_dir)
       IN  /\ gate_state' = [gate_state EXCEPT !.smoke_cleanup = cleanup_result]
           /\ smoke_dir' = IF cleanup_result.action = "deleted_smoke_run_dir_kept_manifest"
                           THEN "absent" ELSE smoke_dir
    /\ gate_pc' = "full"
    /\ UNCHANGED <<gate_args, gate_rc, gate_started, profilerVars, pipeVars, regVars>>

\* run_stage starts the full command.
StartFull ==
    /\ gate_pc = "full"
    /\ gate_started' = Append(gate_started, "full")
    /\ gate_pc' = "full_running"
    /\ UNCHANGED <<gate_args, gate_state, gate_rc, smoke_dir, profilerVars, pipeVars, regVars>>

\* The full command returns: final status and exit code.
FinishFull ==
    /\ gate_pc = "full_running"
    /\ \E returncode \in ExitCodes, missing \in SUBSET gate_args.full_required_file :
          LET full_result == run_stage("full", returncode, missing)
          IN  /\ gate_state' = [gate_state EXCEPT
                    !.phases = Append(@, full_result),
                    !.status = IF full_result.status = "passed" THEN "success"
                               ELSE IF full_result.status = "failed_exit"
                                    THEN "blocked_full_failed_exit"
                               ELSE "blocked_full_missing_artifacts"]
              /\ gate_rc' = IF full_result.status = "passed" THEN 0
                            ELSE IF full_result.status = "failed_exit" THEN 30
                            ELSE 31
    /\ gate_pc' = "exit"
    /\ UNCHANGED <<gate_args, gate_started, smoke_dir, profilerVars, pipeVars, regVars>>

InitGate ==
    /\ ProfilerIdle
    /\ gate_pc = "main"
    /\ gate_args \in GateArgs
    /\ gate_state = NoGateState
    /\ gate_rc = NoExit
    /\ gate_started = <<>>
    /\ smoke_dir = "absent"
    /\ PipeIdle /\ RegIdle

NextGate ==
    \/ GateStart
    \/ StartSmoke
    \/ FinishSmoke
    \/ BlockOnSmoke
    \/ CleanupSmoke
    \/ StartFull
    \/ FinishFull

SpecGate == InitGate /\ [][NextGate]_vars

\* ------------------------------------------------------ post_run_pipeline
\* The exit codes of the tools run_tool starts.
ToolExitCodes == {0, 1, 2}
PipeArgs == [allow_registry_duplicate : BOOLEAN, skip_experience : BOOLEAN]
\* run_dir: the run directory exists; metrics: it holds metrics.json;
\* reflection: the reflection file exists already; snapshot: watch
\* snapshots are enabled and train.log has a tail.
PipeFiles == [run_dir : BOOLEAN, metrics : BOOLEAN, reflection : BOOLEAN, snapshot : BOOLEAN]

\* A variant that goes on whatever the tool returned.
NextStepAlways(rc, next) == next
\* if rc != 0: return rc
NextStep(rc, next) == IF rc /= 0 THEN "exit" ELSE next

\* rc = run_tool(label, cmd, repo_root), then the test of rc.
RunTool(label, flags, next) ==
    /\ \E rc \in ToolExitCodes :
          /\ pipe_ran' = Append(pipe_ran, [label |-> label, flags |-> flags, rc |-> rc])
          /\ pipe_pc' = NextStep(rc, next)
          /\ pipe_rc' = IF pipe_pc' = "exit" THEN rc ELSE pipe_rc
    /\ UNCHANGED <<pipe_args, pipe_files, pipe_writes, profilerVars, gateVars, regVars>>

\* A write main does itself, when due.
WriteStep(step, due, next, rc) ==
    /\ pipe_writes' = IF due THEN Append(pipe_writes, step) ELSE pipe_writes
    /\ pipe_pc' = next
    /\ pipe_rc' = rc
    /\ UNCHANGED <<pipe_args, pipe_files, pipe_ran, profilerVars, gateVars, regVars>>

\* main up to the first tool: the run directory and metrics.json must exist.
PipeStart ==
    /\ pipe_pc = "main"
    /\ IF pipe_files.run_dir /\ pipe_files.metrics
       THEN pipe_pc' = "validate_metrics(pre)" /\ pipe_rc' = pipe_rc
       ELSE pipe_pc' = "exit" /\ pipe_rc' = 1
    /\ UNCHANGED <<pipe_args, pipe_files, pipe_ran, pipe_writes, profilerVars,
                   gateVars, regVars>>

ValidatePre ==
    /\ pipe_pc = "validate_metrics(pre)"
    /\ RunTool("validate_metrics(pre)", {}, "classify_failure")
ClassifyFailure ==
    /\ pipe_pc = "classify_failure"
    /\ RunTool("classify_failure", {}, "validate_metrics(post)")
ValidatePost ==
    /\ pipe_pc = "validate_metrics(post)"
    /\ RunTool("validate_metrics(post)", {}, "append_registry")
AppendRegistry ==
    /\ pipe_pc = "append_registry"
    /\ RunTool("append_registry",
               IF pipe_args.allow_registry_duplicate THEN {"--allow-duplicate"} ELSE {},
               "summarize_run")
SummarizeRun ==
    /\ pipe_pc = "summarize_run"
    /\ RunTool("summarize_run", {"--append"}, "load")

\* load_json of metrics.json and meta.json: an object, another value, or
\* an exception.
LoadArtifacts ==
    /\ pipe_pc = "load"
    /\ \E metrics \in {"object", "other", "error"} :
          IF metrics = "object"
          THEN pipe_pc' = "reflection" /\ pipe_rc' = pipe_rc
          ELSE pipe_pc' = "exit" /\ pipe_rc' = 1
    /\ UNCHANGED <<pipe_args, pipe_files, pipe_ran, pipe_writes, profilerVars,
                   gateVars, regVars>>

\* ensure_reflection_stub writes the stub unless the file exists.
EnsureReflection ==
    /\ pipe_pc = "reflection"
    /\ WriteStep("reflection", ~pipe_files.reflection, "watch_snapshot", pipe_rc)
WatchSnapshot ==
    /\ pipe_pc = "watch_snapshot"
    /\ WriteStep("watch_snapshot", pipe_files.snapshot, "experience", pipe_rc)
Experience ==
    /\ pipe_pc = "experience"
    /\ WriteStep("experience", ~pipe_args.skip_experience, "handoff", pipe_rc)
\* The two markdown updates may fail; the failure is only reported.
Handoff ==
    /\ pipe_pc = "handoff"
    /\ \E ok \in BOOLEAN : WriteStep("handoff", ok, "working_memory", pipe_rc)
WorkingMemory ==
    /\ pipe_pc = "working_memory"
    /\ \E ok \in BOOLEAN : WriteStep("working_memory", ok, "exit", 0)

InitPipe ==
    /\ ProfilerIdle
    /\ GateIdle /\ RegIdle
    /\ pipe_pc = "main"
    /\ pipe_args \in PipeArgs
    /\ pipe_files \in PipeFiles
    /\ pipe_ran = <<>>
    /\ pipe_writes = <<>>
    /\ pipe_rc = NoExit

NextPipe ==
    \/ PipeStart
    \/ ValidatePre
    \/ ClassifyFailure
    \/ ValidatePost
    \/ AppendRegistry
    \/ SummarizeRun
    \/ LoadArtifacts
    \/ EnsureReflection
    \/ WatchSnapshot
    \/ Experience
    \/ Handoff
    \/ WorkingMemory

SpecPipe == InitPipe /\ [][NextPipe]_vars

\* -------------------------------------------------------- append_registry
\* A JSON value under a run_id key: no key, a string, a number.
JsonAbsent == [kind |-> "absent", text |-> ""]
JsonStr(text) == [kind |-> "str", text |-> text]
JsonInt(text) == [kind |-> "int", text |-> text]
\* Python's truth value of such a value.
Truthy(v) == v.kind /= "absent" /\ v.text \notin {"", "0"}
\* a or b
Either(a, b) == IF Truthy(a) THEN a ELSE b

\* What an invocation finds: the run directory's files, the run_id of
\* metrics.json's run object and of meta.json, the directory's name, the flag.
RegInputs ==
    [files : {"ok", "missing_meta", "missing_metrics", "unparsable", "not_object"},
     run_obj_run_id : {JsonAbsent, JsonStr("r1"), JsonInt("7")},
     meta_run_id : {JsonAbsent, JsonStr(""), JsonStr("r2")},
     dir_name : {"", "r1"},
     allow_duplicate : BOOLEAN]

\* A variant that finds no run id in the registry.
read_no_run_ids(reg) == {}
\* read_existing_run_ids: the non-empty run ids of the rows.
read_existing_run_ids(reg) == {reg[i].run_id : i \in 1..Len(reg)} \ {""}

\* main, from the arguments to the exit code.
AppendRecord(inp) ==
    LET run_id == Either(Either(inp.run_obj_run_id, inp.meta_run_id), JsonStr(inp.dir_name))
        known == run_id.kind = "str" /\ run_id.text /= ""
        existing_ids == read_existing_run_ids(registry)
        duplicate == run_id.text \in existing_ids
    IN  /\ reg_calls < MaxInvocations
        /\ reg_calls' = reg_calls + 1
        /\ reg_args' = [run_id |-> IF inp.files = "ok" /\ known THEN run_id.text ELSE "",
                        allow_duplicate |-> inp.allow_duplicate]
        /\ IF inp.files /= "ok" \/ ~known
           THEN reg_rc' = 1 /\ registry' = registry
           ELSE IF duplicate /\ ~inp.allow_duplicate
           THEN reg_rc' = 2 /\ registry' = registry
           ELSE /\ reg_rc' = 0
                /\ registry' = Append(registry, [run_id |-> run_id.text, duplicate |-> duplicate])
        /\ UNCHANGED <<profilerVars, gateVars, pipeVars>>

Invoke == \E inp \in RegInputs : AppendRecord(inp)

\* A registry without duplicates to start from: empty, or of one record.
InitRegistry ==
    /\ ProfilerIdle
    /\ GateIdle /\ PipeIdle
    /\ registry \in {<<>>} \cup {<<[run_id |-> id, duplicate |-> FALSE]>> : id \in {"r1", "r2"}}
    /\ reg_args = NoRegArgs
    /\ reg_rc = NoExit
    /\ reg_calls = 0

NextRegistry == Invoke

SpecRegistry == InitRegistry /\ [][NextRegistry]_vars

\* ------------------------------------------------------------ properties
RunIdx == 1..Len(runs)
Marker(q) == [at |-> q.at, src |-> q.src]
Stale(at, marker) == at - marker.at > StaleHorizon

\* The step just taken consumed an accepted event of one of these kinds.
Handled(kinds) ==
    /\ n' = n + 1
    /\ evt'.event \in kinds
    /\ Accepted(evt')

\* The accepted message.queued events that carry run j's run id and arrived
\* after the previous start with that id and before run j's own start.
QueuedFor(j) ==
    LET prev == {i \in 1..(j - 1) : runs[i].run_id = runs[j].run_id}
        after == IF prev = {} THEN 0 ELSE start_view[SetMax(prev)].pos
    IN  {k \in 1..Len(queued_log) :
            /\ queued_log[k].runId = runs[j].run_id
            /\ queued_log[k].src > after
            /\ queued_log[k].src < start_view[j].pos}

C2_NoStaleTimestampConsumed ==
    \A j \in RunIdx :
        LET t == runs[j].started_at
            q == runs[j].queued_at
            f == start_view[j].fifo
        IN  /\ q /= NoTime => ~Stale(t, q)
            /\ (\E k \in 1..Len(f) : ~Stale(t, f[k])) => (q /= NoTime /\ ~Stale(t, q))

\* C2 amended: a start that found nothing pending under its run id never
\* takes a FIFO timestamp more than 6 hours older than itself; it takes the
\* first pending FIFO timestamp that is no older than 6 hours, none when
\* there is no such timestamp. A start that found a timestamp pending under
\* its run id takes it.
C2_StaleFifoNeverConsumed ==
    \A j \in RunIdx :
        LET t == runs[j].started_at
            q == runs[j].queued_at
            f == start_view[j].fifo
            fresh == {k \in 1..Len(f) : ~Stale(t, f[k])}
        IN  IF start_view[j].by_id
            THEN q /= NoTime
            ELSE /\ q /= NoTime => ~Stale(t, q)
                 /\ fresh /= {} => q = f[SetMin(fresh)]
                 /\ fresh = {} => q = NoTime

\* C2 witness: a start found a stale timestamp ahead of a fresh one in its
\* conversation's FIFO and took the fresh one.
C2_Witness ==
    \E j \in RunIdx :
        LET f == start_view[j].fifo IN
        /\ ~start_view[j].by_id
        /\ Len(f) >= 2
        /\ Stale(runs[j].started_at, f[1])
        /\ ~Stale(runs[j].started_at, f[2])
        /\ runs[j].queued_at = f[2]

\* C3 as stated: while the pass runs, no conversation's active pointer
\* refers to a run whose ended_at is set.
C3_FinalizedRunNotActive ==
    ~raised =>
        \A c \in Convs :
            active_by_conv[c] /= 0 => runs[active_by_conv[c]].ended_at = Absent

\* C4: an accepted agent.run.start event appends exactly one RunRecord, for
\* that event, at the end of the list; no other event changes the length or
\* the order of the list.
C4_OneRecordPerStart ==
    [][/\ \A i \in RunIdx :
            /\ i <= Len(runs')
            /\ runs'[i].run_id = runs[i].run_id
            /\ runs'[i].started_at = runs[i].started_at
            /\ runs'[i].conversation_key = runs[i].conversation_key
       /\ IF Handled({"agent.run.start"})
          THEN /\ Len(runs') = Len(runs) + 1
               /\ runs'[Len(runs')].started_at = evt'.at
               /\ runs'[Len(runs')].conversation_key = evt'.conversationKey
               /\ evt'.runId /= "" => runs'[Len(runs')].run_id = evt'.runId
          ELSE Len(runs') = Len(runs)]_vars

\* C4 witness: two starts with the same run id and no terminal event gave
\* two records.
C4_Witness ==
    /\ Len(runs) = 2
    /\ runs[1].run_id = runs[2].run_id
    /\ runs[1].status = "running"
    /\ runs[2].status = "running"
    /\ evt.event = "agent.run.start"

\* Two consecutive starts i < j of one conversation, neither matched by run
\* id, the first finding at least two pending FIFO timestamps.
FifoPair(i, j) ==
    /\ i < j
    /\ runs[i].conversation_key = runs[j].conversation_key
    /\ \A k \in (i + 1)..(j - 1) : runs[k].conversation_key /= runs[i].conversation_key
    /\ ~start_view[i].by_id
    /\ ~start_view[j].by_id
    /\ Len(start_view[i].fifo) >= 2

\* The pending timestamp that arrived k-th (k = 1: earliest) among those of f.
NthArrived(f, k) ==
    LET srcs == {f[x].src : x \in 1..Len(f)}
        s == CHOOSE y \in srcs : Cardinality({z \in srcs : z < y}) = k - 1
    IN  CHOOSE m \in {f[x] : x \in 1..Len(f)} : m.src = s

\* C5: when a conversation has pending timestamps Q1 then Q2 (the two that
\* arrived first among those pending) and two starts for it follow, neither
\* matched by run id and both within 6 hours of Q1 and Q2, the first start
\* takes Q1 and the second takes Q2.
C5_FifoFallback ==
    \A i, j \in RunIdx :
        FifoPair(i, j) =>
            LET Q1 == NthArrived(start_view[i].fifo, 1)
                Q2 == NthArrived(start_view[i].fifo, 2)
            IN  (/\ ~Stale(runs[i].started_at, Q1) /\ ~Stale(runs[i].started_at, Q2)
                 /\ ~Stale(runs[j].started_at, Q1) /\ ~Stale(runs[j].started_at, Q2))
                => (runs[i].queued_at = Q1 /\ runs[j].queued_at = Q2)

\* C5 witness: exactly two timestamps were pending, at different times, and
\* two starts took them in order.
C5_Witness ==
    \E i, j \in RunIdx :
        /\ FifoPair(i, j)
        /\ Len(start_view[i].fifo) = 2
        /\ runs[i].queued_at = start_view[i].fifo[1]
        /\ runs[j].queued_at = start_view[i].fifo[2]
        /\ runs[i].queued_at.at < runs[j].queued_at.at
        /\ ~Stale(runs[j].started_at, runs[i].queued_at)

\* The timestamps pending in either store, and those runs have taken.
PendingInFifo == UNION {{queued_by_conv[c][k] : k \in 1..Len(queued_by_conv[c])} : c \in Convs}
PendingUnderId == {queued_by_run_id[r] : r \in DOMAIN queued_by_run_id}
Pending == PendingInFifo \cup PendingUnderId
Consumed == {runs[j].queued_at : j \in RunIdx} \ {NoTime}

\* Where a timestamp can be pending: a place in a conversation's FIFO, or
\* the entry of a run id.
PendingSlots ==
    {<<c, k>> : c \in Convs, k \in 1..MaxEvents + MaxQueueEvents}
        \cup {<<r, 0>> : r \in DOMAIN queued_by_run_id}
Filled(slot) == slot[2] = 0 \/ slot[2] <= Len(queued_by_conv[slot[1]])
SlotValue(slot) ==
    IF slot[2] = 0 THEN queued_by_run_id[slot[1]] ELSE queued_by_conv[slot[1]][slot[2]]

ConsumedOnce ==
    /\ \A i, j \in RunIdx :
            (i /= j /\ runs[i].queued_at /= NoTime) =>
                runs[i].queued_at.src /= runs[j].queued_at.src
    /\ \A m \in Pending : \A j \in RunIdx : m.src /= runs[j].queued_at.src
    /\ \A a, b \in {x \in PendingSlots : Filled(x)} :
            a /= b => SlotValue(a).src /= SlotValue(b).src

\* C6: the timestamp of one queued event is the queued_at of at most one
\* run; a consumed timestamp is pending in neither store; and a timestamp
\* that has left the pending stores, consumed or evicted, never returns to
\* them (only the timestamp of the event just consumed can become pending).
C6_QueuedConsumedAtMostOnce ==
    [][/\ ConsumedOnce'
       /\ \A m \in Pending' : m \in Pending \/ m.src = n']_vars

\* C6 witness: of three queued events one was taken by a run, one was
\* evicted or overwritten and one is still pending.
C6_Witness ==
    /\ Len(queued_log) = 3
    /\ Cardinality(Consumed) = 1
    /\ Cardinality(Pending) = 1
    /\ Len(runs) = 1

\* C7 as stated: no step lowers the transient_retries of any run.
C7_RetriesNeverDecrease ==
    [][\A i \in RunIdx : runs'[i].transient_retries >= runs[i].transient_retries]_vars

\* An orphan: a note or terminal event whose run id is absent or unknown,
\* for a conversation without an active run.
OrphanStep ==
    /\ Handled({"agent.progress.note", "agent.run.done", "message.failed"})
    /\ evt'.runId = "" \/ evt'.runId \notin DOMAIN by_run_id
    /\ active_by_conv[evt'.conversationKey] = 0

\* C8: an orphan event changes neither the run list, nor any run, nor the
\* pending stores, nor the active map, nor the by-id map, nor the legacy
\* counter, and raises nothing.
C8_OrphanDropped ==
    [][OrphanStep => (UNCHANGED corr /\ ~raised')]_vars

\* C8 witness: with runs on record, a terminal event with a malformed
\* durationMs came for a conversation without an active run and an unknown
\* run id, and the pass goes on.
C8_Witness ==
    /\ Len(runs) >= 1
    /\ evt.event \in TerminalKinds
    /\ evt.durationMs = Malformed
    /\ evt.conversationKey \in Convs
    /\ active_by_conv[evt.conversationKey] = 0
    /\ evt.runId \notin DOMAIN by_run_id
    /\ \A i \in RunIdx : runs[i].ended_at = Absent
    /\ ~raised
    /\ since = Absent /\ conversation_key = ""

\* C9 as stated: no event makes build_run_records raise.
C9_NeverRaises == raised = FALSE

Categories ==
    {"thinking", "polling", "action", "action_result", "stall", "queue_wait",
     "overhead", "synthetic", "other"}

\* The rule table of the classifier, in order: what each rule looks for in
\* the trimmed, lower-cased text, and the category it gives.
RuleTable(lo, syn) ==
    LET running == startswith(lo, "running shell command:") \/ startswith(lo, "running tool:")
        keyword == contains(lo, "tail -n") \/ contains(lo, "sleep ") \/ contains(lo, "poll")
    IN  << <<startswith(lo, "thinking:"), "thinking">>,
           <<running /\ keyword, "polling">>,
           <<running, "action">>,
           <<startswith(lo, "shell command finished") \/ startswith(lo, "tool finished"),
             "action_result">>,
           <<contains(lo, "no new agent events") \/ contains(lo, "possible stall"), "stall">>,
           <<contains(lo, "waiting for an earlier request"), "queue_wait">>,
           <<startswith(lo, "queued request") \/ startswith(lo, "starting "), "overhead">>,
           <<syn, "synthetic">>,
           <<TRUE, "other">> >>

\* C16: classify_progress_note returns, for every text and flag, one of the
\* nine categories, and it is the category of the first rule of the table
\* that matches; a note that starts with "thinking:" is thinking whatever
\* else it contains.
C16_FirstMatchingRuleWins ==
    category /= "" =>
        LET lo == lower(strip(note))
            table == RuleTable(lo, synthetic)
            first == SetMin({i \in 1..Len(table) : table[i][1]})
        IN  /\ category \in Categories
            /\ category = table[first][2]
            /\ startswith(lo, "thinking:") => category = "thinking"

\* C16 witness: a note that starts with "Thinking:" and contains "poll",
\* "possible stall" and the queue-wait phrase was classified as thinking.
C16_Witness ==
    /\ category = "thinking"
    /\ contains(note, "poll")
    /\ contains(note, "possible stall")
    /\ contains(note, "waiting for an earlier request")

\* The run handed to summarize_run has a known duration and notes that
\* cover its span: a note at started_at and every note within
\* started_at..ended_at.
Covered ==
    /\ summary /= NoSummary
    /\ summary.duration_sec /= Absent
    /\ run.ended_at /= Absent
    /\ \E i \in 1..Len(run.notes) : run.notes[i].at = run.started_at
    /\ \A i \in 1..Len(run.notes) :
          run.started_at <= run.notes[i].at /\ run.notes[i].at <= run.ended_at

\* The sum of category_seconds over all categories, in milliseconds.
TotalSeconds == SumOver(summary.category_seconds, DOMAIN summary.category_seconds)

\* C11 as stated: for a covered run the category seconds add up to
\* duration_sec (the skipped intervals of a covered run have length 0),
\* whether the duration is the durationMs override or ended_at - started_at.
C11_SecondsSumToDuration == Covered => TotalSeconds = summary.duration_sec

\* C11 amended: for a covered run the category seconds add up to
\* ended_at - started_at; that is duration_sec when no durationMs was
\* recorded or when the recorded one equals ended_at - started_at.
C11_SecondsSumToSpan ==
    Covered =>
        LET span == Ms(run.ended_at - run.started_at) IN
        /\ TotalSeconds = span
        /\ (run.duration_ms = Absent \/ run.duration_ms = span)
                => TotalSeconds = summary.duration_sec

\* C11 witness: a covered run of 20 minutes whose durationMs says 20
\* minutes, with three notes of two categories or more, two of the notes
\* at the same time (an interval of length 0 is skipped).
C11_Witness ==
    /\ Covered
    /\ run.duration_ms = 1200000
    /\ Len(run.notes) = 3
    /\ Cardinality(DOMAIN summary.category_seconds) >= 2
    /\ TotalSeconds = 1200000

\* polling-share >= 0.20, from the summary's own fields.
PollingShareHigh ==
    /\ summary.duration_sec > 0
    /\ 100 * SecondsOf(summary.category_seconds, "polling") >= 20 * summary.duration_sec

\* The repeated groups of the run's notes (normalized text, count >= 2)
\* whose text holds a polling keyword, and the notes they hold together.
PollingGroupsOf(keys) ==
    LET counter == Counter(keys) IN
    {k \in DOMAIN counter :
        /\ counter[k] >= 2
        /\ \E w \in {"tail -n", "sleep ", "poll"} : contains(lower(k), w)}
PollingGroupKeys == PollingGroupsOf(NoteKeys(run.notes))
PollingOccurrences ==
    LET keys == NoteKeys(run.notes)
        groups == PollingGroupsOf(keys)
    IN  Cardinality({i \in 1..Len(keys) : keys[i] \in groups})

HasHint(h) == \E i \in 1..Len(summary.hints) : summary.hints[i] = h

\* C12 as stated: the polling hint is given exactly when polling-share is
\* at least 0.20 or at least 3 repeated groups hold a polling keyword.
C12_PollingHintByGroups ==
    summary /= NoSummary =>
        (HasHint(HintPolling) <=>
            (PollingShareHigh \/ Cardinality(PollingGroupKeys) >= 3))

\* C12 amended: the polling hint is given exactly when polling-share is at
\* least 0.20 or the repeated groups that hold a polling keyword hold at
\* least 3 notes together.
C12_PollingHintByOccurrences ==
    summary /= NoSummary =>
        (HasHint(HintPolling) <=> (PollingShareHigh \/ PollingOccurrences >= 3))

\* C12 witness: three notes with different numbers fall in one repeated
\* polling group and give the hint although the polling share is below
\* 0.20.
C12_Witness ==
    /\ summary /= NoSummary
    /\ HasHint(HintPolling)
    /\ ~PollingShareHigh
    /\ Cardinality(PollingGroupKeys) = 1
    /\ PollingOccurrences = 3
    /\ \E i, j \in 1..Len(run.notes) : run.notes[i].text /= run.notes[j].text

\* The five hints in the order they are given, and when each is due.
HintOrder == <<HintThinking, HintPolling, HintStall, HintQueue, HintNoNotes>>
HintDue(h) ==
    LET d == summary.duration_sec
        secs(c) == SecondsOf(summary.category_seconds, c)
        stalls == IF "stall" \in DOMAIN summary.category_counts
                  THEN summary.category_counts["stall"] ELSE 0
    IN  CASE h = HintThinking ->
                /\ d >= Ms(1200)
                /\ 100 * secs("thinking") >= 35 * d
                /\ 100 * secs("action") <= 25 * d
          [] h = HintPolling -> PollingShareHigh \/ PollingOccurrences >= 3
          [] h = HintStall -> stalls >= 2 \/ summary.stale_alerts >= 1
          [] h = HintQueue -> summary.queue_delay_sec >= Ms(30)
          [] h = HintNoNotes -> summary.note_count = 0

\* C13: the hint list holds exactly the hints that are due, each once, in
\* the fixed order thinking, polling, stall, queue delay, no notes.
C13_HintsInFixedOrder ==
    summary /= NoSummary =>
        summary.hints = SelectSeq(HintOrder, LAMBDA h : HintDue(h))

\* C13 witness: a run with notes gets the four hints a run with notes can
\* get, in order.
C13_Witness ==
    /\ summary /= NoSummary
    /\ summary.hints = <<HintThinking, HintPolling, HintStall, HintQueue>>

\* C14: the example stream gives one run, completed, and one summary with
\* queue delay 5 s, duration 55 s, one thinking, one polling and one action
\* note, 15 s of polling and the polling hint.
C14_Example ==
    (summaries /= NoReport /\ \E t0 \in {0, 1000} : events = ExampleStream(t0)) =>
        /\ Len(runs) = 1
        /\ runs[1].status = "completed"
        /\ Len(summaries) = 1
        /\ summaries[1].queue_delay_sec = Ms(5)
        /\ summaries[1].duration_sec = Ms(55)
        /\ DOMAIN summaries[1].category_counts = {"thinking", "polling", "action"}
        /\ \A c \in {"thinking", "polling", "action"} : summaries[1].category_counts[c] = 1
        /\ SecondsOf(summaries[1].category_seconds, "polling") = Ms(15)
        /\ \E i \in 1..Len(summaries[1].hints) : summaries[1].hints[i] = HintPolling

\* C14 witness: the report of the example stream, whose only hint is the
\* polling hint.
C14_Witness ==
    /\ events = ExampleStream(0)
    /\ summaries /= NoReport
    /\ Len(summaries) = 1
    /\ summaries[1].run_id = "r1"
    /\ summaries[1].hints = <<HintPolling>>

\* C15: the report lists the runs latest start first and, without
\* --include-open, only completed and failed runs.
C15_ReportOrderAndStatus ==
    summaries /= NoReport =>
        /\ \A i, j \in 1..Len(summaries) :
                i < j => summaries[i].started_at >= summaries[j].started_at
        /\ ~include_open =>
                \A i \in 1..Len(summaries) : summaries[i].status \in {"completed", "failed"}

\* C15 witness: of three runs, the one still running is left out and the
\* two others are listed in the reverse of the order they were created in.
C15_Witness ==
    /\ summaries /= NoReport
    /\ ~include_open
    /\ Len(runs) = 3
    /\ runs[1].status = "running"
    /\ Len(summaries) = 2
    /\ summaries[1].run_id = runs[3].run_id
    /\ summaries[2].run_id = runs[2].run_id
    /\ summaries[1].started_at > summaries[2].started_at

FullStarted == \E i \in 1..Len(gate_started) : gate_started[i] = "full"
SmokeFinished == Len(gate_state.phases) >= 1
SmokeFailed ==
    /\ SmokeFinished
    /\ gate_state.phases[1].exit_code /= 0 \/ gate_state.phases[1].missing_files /= {}
StagePassed(i) ==
    /\ gate_state.phases[i].exit_code = 0
    /\ gate_state.phases[i].missing_files = {}
    /\ gate_state.phases[i].status = "passed"

\* C17: the full command is started only after the smoke stage finished
\* with exit code 0 and no required file missing; after a failed smoke
\* stage the full stage is never started, no cleanup happens and the gate
\* ends blocked_smoke_failed_exit with 20 or blocked_smoke_missing_artifacts
\* with 21; success and exit code 0 only when both stages passed.
C17_FullGatedOnSmoke ==
    /\ FullStarted =>
            SmokeFinished /\ gate_state.phases[1].name = "smoke" /\ StagePassed(1)
    /\ SmokeFailed =>
            /\ ~FullStarted
            /\ gate_pc \in {"smoke_done", "exit"}
            /\ Len(gate_state.phases) = 1
            /\ gate_state.smoke_cleanup = NoCleanup
            /\ gate_pc = "exit" =>
                    IF gate_state.phases[1].exit_code /= 0
                    THEN gate_state.status = "blocked_smoke_failed_exit" /\ gate_rc = 20
                    ELSE gate_state.status = "blocked_smoke_missing_artifacts" /\ gate_rc = 21
    /\ (gate_state.status = "success" \/ gate_rc = 0) =>
            /\ gate_pc = "exit"
            /\ gate_state.status = "success" /\ gate_rc = 0
            /\ Len(gate_state.phases) = 2
            /\ gate_state.phases[2].name = "full"
            /\ StagePassed(1) /\ StagePassed(2)

\* C17 witness: the smoke command exited with 0 but left a required file
\* missing, and the gate ended with 21 before any cleanup of the smoke run
\* directory it was asked to reduce to a manifest.
C17_Witness ==
    /\ gate_pc = "exit"
    /\ gate_rc = 21
    /\ gate_state.phases[1].exit_code = 0
    /\ gate_state.phases[1].missing_files /= {}
    /\ gate_args.cleanup_smoke_policy = "keep_manifest_only"
    /\ gate_args.smoke_run_dir = "runs/smoke"
    /\ smoke_dir = "dir"
    /\ gate_started = <<"smoke">>

Ran(label) == \E i \in 1..Len(pipe_ran) : pipe_ran[i].label = label
GateTools == <<"validate_metrics(pre)", "classify_failure", "validate_metrics(post)">>

\* C18: append_registry, summarize_run and main's own writes happen only
\* after validate_metrics(pre), classify_failure and validate_metrics(post)
\* each returned 0; a tool that returns non-zero is the last step, and the
\* pipeline has ended with its exit code.
C18_FailClosed ==
    /\ (Ran("append_registry") \/ Ran("summarize_run") \/ pipe_writes /= <<>>) =>
            /\ Len(pipe_ran) >= 3
            /\ \A i \in 1..3 : pipe_ran[i].label = GateTools[i] /\ pipe_ran[i].rc = 0
    /\ \A i \in 1..Len(pipe_ran) :
            pipe_ran[i].rc /= 0 =>
                /\ i = Len(pipe_ran)
                /\ pipe_writes = <<>>
                /\ pipe_pc = "exit"
                /\ pipe_rc = pipe_ran[i].rc

\* C18 witness: classify_failure returned 2 after validate_metrics(pre)
\* passed, and the pipeline ended with 2.
C18_Witness ==
    /\ Len(pipe_ran) = 2
    /\ pipe_ran[1].rc = 0
    /\ pipe_ran[2].label = "classify_failure"
    /\ pipe_ran[2].rc = 2
    /\ pipe_pc = "exit"
    /\ pipe_rc = 2

Holds(reg, id) == \E i \in 1..Len(reg) : reg[i].run_id = id
NoUnmarkedDuplicate(reg) ==
    \A i, j \in 1..Len(reg) :
        (i < j /\ reg[i].run_id = reg[j].run_id) => reg[j].duplicate

C20_TerminalFinalizes ==
    [][(/\ n' = n + 1
        /\ evt'.event \in TerminalKinds
        /\ Accepted(evt')
        /\ ResolveTarget(evt') /= 0) =>
            LET target == ResolveTarget(evt')
                before == runs[target]
                after == runs'[target]
            IN  /\ after.ended_at = evt'.at
                /\ after.status =
                        IF evt'.event = "message.failed" THEN "failed" ELSE "completed"
                /\ after.duration_ms =
                        IF evt'.durationMs /= Absent THEN evt'.durationMs
                        ELSE before.duration_ms
                /\ after.result_chars =
                        IF evt'.resultChars /= Absent THEN evt'.resultChars
                        ELSE before.result_chars
                /\ after.transient_retries =
                        IF evt'.transientRetries /= Absent THEN evt'.transientRetries
                        ELSE 0]_vars

\* The kinds of event that are routed to a run.
RoutedKinds == {"agent.progress.note", "job.watch.stale_progress"} \cup TerminalKinds
\* The event of the step carries a run id that by_run_id holds.
KnownId == evt'.runId \in DOMAIN by_run_id
\* The run the event of the step is addressed to by its id, else the active
\* run of its conversation, else 0.
Addressed == IF KnownId THEN by_run_id[evt'.runId] ELSE active_by_conv[evt'.conversationKey]

\* C21 as stated: a terminal event for conversation C that resolves to C's
\* active run leaves C without active run, and while C has no active run a
\* note, stale alert or terminal event for C without a known run id changes
\* no run.
C21_ActiveClearedByTerminal ==
    [][/\ (/\ Handled(TerminalKinds)
           /\ Addressed /= 0
           /\ Addressed = active_by_conv[evt'.conversationKey]) =>
                active_by_conv'[evt'.conversationKey] = 0
       /\ (/\ Handled(RoutedKinds)
           /\ active_by_conv[evt'.conversationKey] = 0
           /\ ~KnownId) =>
                runs' = runs]_vars

\* The runs of conversation c, and the one created last.
RunsOf(c) == {i \in RunIdx : runs[i].conversation_key = c}
Latest(c) == SetMax(RunsOf(c))
\* Run i was followed by a later start of its conversation.
Superseded(i) == i /= Latest(runs[i].conversation_key)
\* The event of the step does something to the run it reaches: a note with
\* a text, a stale alert, a terminal event.
Effective ==
    /\ Handled(RoutedKinds)
    /\ evt'.event = "agent.progress.note" => evt'.note /= ""

\* C22: a start for conversation C whose active run r1 is unfinished makes
\* the new run r2 the active run of C and leaves r1 as it is, running and
\* without ended_at; a run followed by a later start of its conversation is
\* changed only by events that carry its run id; a note, stale alert or
\* terminal event for C without run id changes r2, the latest run of C,
\* while r2 is the active run, and no run at all afterwards.
C22_Supersession ==
    [][/\ (/\ Handled({"agent.run.start"})
           /\ active_by_conv[evt'.conversationKey] /= 0
           /\ runs[active_by_conv[evt'.conversationKey]].ended_at = Absent) =>
                LET r1 == active_by_conv[evt'.conversationKey] IN
                /\ active_by_conv'[evt'.conversationKey] = Len(runs')
                /\ Len(runs') = Len(runs) + 1
                /\ runs'[r1] = runs[r1]
                /\ runs'[r1].status = "running"
                /\ runs'[r1].ended_at = Absent
       /\ \A i \in RunIdx :
                (Superseded(i) /\ runs'[i] /= runs[i]) => evt'.runId = runs[i].run_id
       /\ (/\ Effective
           /\ evt'.runId = ""
           /\ \E i \in RunsOf(evt'.conversationKey) : Superseded(i)) =>
                LET r2 == Latest(evt'.conversationKey) IN
                /\ \A i \in RunIdx \ {r2} : runs'[i] = runs[i]
                /\ IF active_by_conv[evt'.conversationKey] = r2
                   THEN runs'[r2] /= runs[r2]
                   ELSE runs'[r2] = runs[r2]]_vars

\* C22 witness: c1's first run was superseded while running; a note without
\* run id went to the second run and a later terminal event carrying the
\* first run's id finalized the first.
C22_Witness ==
    /\ Len(runs) = 2
    /\ runs[1].conversation_key = "c1" /\ runs[2].conversation_key = "c1"
    /\ runs[1].run_id = "r1"
    /\ runs[1].notes = <<>> /\ Len(runs[2].notes) = 1
    /\ runs[1].status = "completed" /\ runs[2].status = "running"
    /\ runs[1].ended_at > runs[2].notes[1].at
    /\ active_by_conv["c1"] = 2

\* The ids of the first synthesized runs, written out.
LegacyIds ==
    <<"legacy-run-00001", "legacy-run-00002", "legacy-run-00003",
      "legacy-run-00004", "legacy-run-00005", "legacy-run-00006">>
Synthesized(rs) == {i \in 1..Len(rs) : \E k \in 1..Len(LegacyIds) : rs[i].run_id = LegacyIds[k]}

\* C23: the legacy counter is 0 before the first event; an accepted agent.run.start without
\* run id increases it by one and its run gets the id legacy-run- followed
\* by the new count padded with zeros to 5 digits; no other event changes
\* the counter; the synthesized ids are pairwise distinct.
C23_LegacyIds ==
    [][/\ n = 0 => legacy_counter = 0
       /\ IF Handled({"agent.run.start"}) /\ evt'.runId = ""
          THEN /\ legacy_counter' = legacy_counter + 1
               /\ Len(runs') = Len(runs) + 1
               /\ runs'[Len(runs')].run_id = LegacyIds[legacy_counter']
          ELSE legacy_counter' = legacy_counter
       /\ Cardinality(Synthesized(runs')) = legacy_counter'
       /\ \A i, j \in Synthesized(runs') :
               i /= j => runs'[i].run_id /= runs'[j].run_id]_vars

\* C23 witness: three starts without run id, of two conversations, with
\* the ids 00001, 00002 and 00003 in order of arrival.
C23_Witness ==
    /\ legacy_counter = 3
    /\ Len(runs) = 3
    /\ \A i \in 1..3 : runs[i].run_id = LegacyIds[i]
    /\ runs[1].conversation_key /= runs[2].conversation_key

IsPrefix(a, b) == Len(a) <= Len(b) /\ SubSeq(b, 1, Len(a)) = a

\* C24: an agent.progress.note with a text is appended at the end of the
\* notes of one run, the by_run_id run of its run id when the id is known
\* and else the active run of its conversation, and changes nothing else
\* (nothing at all when there is no such run); a note without text changes
\* nothing; no event removes or reorders recorded notes.
C24_NoteRouting ==
    [][/\ Handled({"agent.progress.note"}) =>
            IF evt'.note = "" \/ Addressed = 0
            THEN runs' = runs
            ELSE /\ Len(runs') = Len(runs)
                 /\ runs'[Addressed].notes =
                        runs[Addressed].notes \o
                            <<[at |-> evt'.at, text |-> evt'.note,
                               synthetic |-> evt'.synthetic]>>
                 /\ [runs'[Addressed] EXCEPT !.notes = runs[Addressed].notes]
                        = runs[Addressed]
                 /\ \A i \in RunIdx \ {Addressed} : runs'[i] = runs[i]
       /\ \A i \in RunIdx : IsPrefix(runs[i].notes, runs'[i].notes)]_vars

\* C24 witness: a run holds two notes in order of arrival, the second one
\* sent with a run id no run has and so routed to the active run of its
\* conversation, while the other conversation's run holds none.
C24_Witness ==
    /\ Len(runs) = 2
    /\ runs[1].conversation_key = "c1" /\ runs[2].conversation_key = "c2"
    /\ Len(runs[1].notes) = 2
    /\ runs[1].notes[1].at < runs[1].notes[2].at
    /\ runs[2].notes = <<>>
    /\ evt.event = "agent.progress.note"
    /\ evt.conversationKey = "c1"
    /\ evt.runId = "r1"
    /\ "r1" \notin DOMAIN by_run_id
    /\ runs[1].notes[2].at = evt.at

\* C25: a job.watch.stale_progress event adds one to the stale_alerts of
\* the active run of its conversation, whatever run id it carries, and
\* changes nothing else, nothing at all without active run; no event
\* decreases a run's stale_alerts.
C25_StaleAlerts ==
    [][/\ Handled({"job.watch.stale_progress"}) =>
            LET target == active_by_conv[evt'.conversationKey] IN
            /\ IF target = 0
               THEN runs' = runs
               ELSE /\ Len(runs') = Len(runs)
                    /\ runs'[target].stale_alerts = runs[target].stale_alerts + 1
                    /\ [runs'[target] EXCEPT !.stale_alerts = runs[target].stale_alerts]
                            = runs[target]
                    /\ \A i \in RunIdx \ {target} : runs'[i] = runs[i]
            /\ UNCHANGED <<active_by_conv, by_run_id, queued_by_conv,
                           queued_by_run_id, legacy_counter>>
       /\ \A i \in RunIdx : runs'[i].stale_alerts >= runs[i].stale_alerts]_vars

\* C25 witness: a stale alert carrying the run id of c1's superseded run
\* was counted on c1's active run, twice by now, and not on the run of
\* that id.
C25_Witness ==
    /\ Len(runs) = 2
    /\ runs[1].run_id = "r1"
    /\ by_run_id["r1"] = 1
    /\ active_by_conv["c1"] = 2
    /\ evt.event = "job.watch.stale_progress"
    /\ evt.runId = "r1"
    /\ runs[1].stale_alerts = 0
    /\ runs[2].stale_alerts = 2

\* C26: duration_seconds is the durationMs override, never negative,
\* whenever one was recorded, whatever ended_at - started_at is; else
\* ended_at - started_at, at least 0, when ended_at is set; else unknown.
\* queue_delay_seconds is started_at - queued_at, at least 0, and unknown
\* without queued_at. (Milliseconds on both sides.)
C26_Durations ==
    /\ duration_out /= <<>> =>
          LET d == duration_out[1]
              span == 1000 * (run.ended_at - run.started_at)
          IN  IF run.duration_ms /= Absent
              THEN /\ d >= 0
                   /\ run.duration_ms >= 0 => d = run.duration_ms
                   /\ run.duration_ms < 0 => d = 0
              ELSE IF run.ended_at /= Absent
              THEN /\ d >= 0
                   /\ span >= 0 => d = span
                   /\ span < 0 => d = 0
              ELSE d = Absent
    /\ queue_delay_out /= <<>> =>
          LET q == queue_delay_out[1]
              delay == 1000 * (run.started_at - run.queued_at.at)
          IN  IF run.queued_at = NoTime THEN q = Absent
              ELSE /\ q >= 0
                   /\ delay >= 0 => q = delay
                   /\ delay < 0 => q = 0

\* C26 witness: a run that ended 50 s before its start with a negative
\* durationMs, queued 30 s after its start: both methods gave 0.
C26_Witness ==
    /\ run.ended_at /= Absent
    /\ run.ended_at < run.started_at
    /\ run.duration_ms = -5000
    /\ run.queued_at /= NoTime
    /\ run.queued_at.at > run.started_at
    /\ duration_out = <<0>>
    /\ queue_delay_out = <<0>>

Finished(r) == r.status \in {"completed", "failed"}
\* Run i's status or ended_at differs after the step.
Refinalized(i) ==
    \/ runs'[i].status /= runs[i].status
    \/ runs'[i].ended_at /= runs[i].ended_at

C28_ConversationIsolation ==
    [][n' = n + 1 /\ Accepted(evt') =>
          /\ \A i \in RunIdx :
                runs[i].conversation_key /= evt'.conversationKey => runs'[i] = runs[i]
          /\ \A c \in Convs \ {evt'.conversationKey} :
                /\ active_by_conv'[c] = active_by_conv[c]
                /\ queued_by_conv'[c] = queued_by_conv[c]]_vars

\* C29 as stated: after every step every run is running exactly when its
\* ended_at is unset, and has duration_ms and result_chars only with
\* ended_at set; run_id, conversation_key, started_at and queued_at of a
\* run never change.
C29_RecordInvariants ==
    [][/\ \A i \in 1..Len(runs') :
             /\ runs'[i].status = "running" <=> runs'[i].ended_at = Absent
             /\ runs'[i].duration_ms /= Absent => runs'[i].ended_at /= Absent
             /\ runs'[i].result_chars /= Absent => runs'[i].ended_at /= Absent
       /\ \A i \in RunIdx :
             /\ runs'[i].run_id = runs[i].run_id
             /\ runs'[i].conversation_key = runs[i].conversation_key
             /\ runs'[i].started_at = runs[i].started_at
             /\ runs'[i].queued_at = runs[i].queued_at]_vars

\* The run id of the run the start event of the step created.
StartedId == runs'[Len(runs')].run_id
\* The start event of the step found its run id in queued_by_run_id.
MatchedById == StartedId \in DOMAIN queued_by_run_id

\* C30: a start whose run id is pending in queued_by_run_id takes that
\* timestamp and leaves every FIFO as it was, stale heads included; a
\* start changes a FIFO only without such a match, only the FIFO of its
\* own conversation, and only by removing entries from its head.
C30_ByIdLeavesFifo ==
    [][Handled({"agent.run.start"}) =>
          LET conv == evt'.conversationKey
              q == queued_by_conv[conv]
          IN  /\ MatchedById =>
                    /\ queued_by_conv' = queued_by_conv
                    /\ runs'[Len(runs')].queued_at = queued_by_run_id[StartedId]
              /\ queued_by_conv' /= queued_by_conv => ~MatchedById
              /\ \E k \in 0..Len(q) :
                    queued_by_conv'[conv] = SubSeq(q, k + 1, Len(q))
              /\ \A c \in Convs \ {conv} : queued_by_conv'[c] = queued_by_conv[c]]_vars

\* C30 witness: a start was matched by run id while the FIFO of its
\* conversation held two markers, the head one stale at that time; both
\* are still there, in order.
C30_Witness ==
    /\ evt.event = "agent.run.start"
    /\ start_view /= <<>>
    /\ start_view[Len(start_view)].pos = n
    /\ start_view[Len(start_view)].by_id
    /\ runs[Len(runs)].queued_at /= NoTime
    /\ Len(queued_by_conv[evt.conversationKey]) = 2
    /\ queued_by_conv[evt.conversationKey] = start_view[Len(start_view)].fifo
    /\ evt.at - queued_by_conv[evt.conversationKey][1].at > StaleHorizon
    /\ queued_by_conv[evt.conversationKey][1].src < queued_by_conv[evt.conversationKey][2].src

====
